---- MODULE Spec2Model ----
(***************************************************************************)
(* Argument resolution of zr (beltram/zr): the variant expander            *)
(* (data/arg_case.rs, data/arg_path.rs, data/data_arg.rs), the schema      *)
(* model (template/local_arg.rs, template/arg_kind.rs), the resolver       *)
(* (data/mod.rs), the loading of the schemas (template/mod.rs), the        *)
(* instantiation of a template (lib.rs) and the actions taken on the       *)
(* generated project (actions.rs).                                         *)
(*                                                                         *)
(* Strings are sequences of one-character strings, so that key             *)
(* formatting, key trimming, the separator transform and the               *)
(* lexicographic order of String are computed character by character.      *)
(***************************************************************************)
EXTENDS Integers, Sequences, FiniteSets, TLC

VARIABLES input, data_args, sorted_cmds, args, commands, pre_args, artifacts, files, log, steps, pc

vars == <<input, data_args, sorted_cmds, args, commands, pre_args, artifacts, files, log, steps, pc>>

(***************************************************************************)
(* Characters                                                              *)
(***************************************************************************)
\* The characters used by the model, in ascending ASCII order.
AsciiOrder ==
    <<" ", "!", "$", "'", "-", ".", "/", "1", "4",
      "A", "B", "C", "D", "E", "F", "G", "H", "I", "J", "K", "L", "M",
      "N", "O", "P", "Q", "R", "S", "T", "U", "V", "W", "X", "Y", "Z",
      "_",
      "a", "b", "c", "d", "e", "f", "g", "h", "i", "j", "k", "l", "m",
      "n", "o", "p", "q", "r", "s", "t", "u", "v", "w", "x", "y", "z",
      "{", "}">>

Chars == {AsciiOrder[i] : i \in DOMAIN AsciiOrder}
CharCodes == [c \in Chars |-> CHOOSE i \in DOMAIN AsciiOrder : AsciiOrder[i] = c]
CharCode(c) == CharCodes[c]

DigitChars == {"1", "4"}
UpperChars == {AsciiOrder[i] : i \in 10..35}
LowerChars == {AsciiOrder[i] : i \in 37..62}

\* char::is_ascii_alphanumeric
is_ascii_alphanumeric(c) == c \in DigitChars \cup UpperChars \cup LowerChars

\* char::to_uppercase / char::to_lowercase on the ASCII range
to_upper_char(c) == IF c \in LowerChars THEN AsciiOrder[CharCode(c) - 27] ELSE c
to_lower_char(c) == IF c \in UpperChars THEN AsciiOrder[CharCode(c) + 27] ELSE c

(***************************************************************************)
(* Strings                                                                 *)
(***************************************************************************)
\* Ord for String: lexicographic on the characters, a proper prefix first.
RECURSIVE StrLess(_, _)
StrLess(s, t) ==
    IF t = <<>> THEN FALSE
    ELSE IF s = <<>> THEN TRUE
    ELSE IF Head(s) # Head(t) THEN CharCode(Head(s)) < CharCode(Head(t))
    ELSE StrLess(Tail(s), Tail(t))

MapStr(f(_), s) == [i \in DOMAIN s |-> f(s[i])]

RECURSIVE Flatten(_)
Flatten(ss) == IF ss = <<>> THEN <<>> ELSE Head(ss) \o Flatten(Tail(ss))

\* itertools join / [String]::join: the words separated by sep
RECURSIVE JoinWith(_, _)
JoinWith(ws, sep) ==
    IF ws = <<>> THEN <<>>
    ELSE IF Len(ws) = 1 THEN ws[1]
    ELSE ws[1] \o sep \o JoinWith(Tail(ws), sep)

(***************************************************************************)
(* Option<T> and serde_json::Value                                         *)
(***************************************************************************)
None == [some |-> FALSE]
Some(x) == [some |-> TRUE, v |-> x]

Null == [t |-> "null"]
VBool(b) == [t |-> "bool", b |-> b]
VStr(s) == [t |-> "str", s |-> s]
VArr(a) == [t |-> "arr", a |-> a]

\* Value::as_str, Value::as_array
as_str(v) == IF v.t = "str" THEN Some(v.s) ELSE None
as_array(v) == IF v.t = "arr" THEN Some(v.a) ELSE None

\* Option<Value>::unwrap_or_default (Value::default() is Null)
unwrap_or_default(o) == IF o.some THEN o.v ELSE Null

\* iter().filter_map(|v| v.as_str()) over the elements of an array
RECURSIVE FilterMapAsStr(_)
FilterMapAsStr(vs) ==
    IF vs = <<>> THEN <<>>
    ELSE IF as_str(Head(vs)).some
         THEN <<as_str(Head(vs)).v>> \o FilterMapAsStr(Tail(vs))
         ELSE FilterMapAsStr(Tail(vs))

(***************************************************************************)
(* Case conventions (crate inflections, used through Inflect::to_*_case)   *)
(***************************************************************************)
WordSeparators == {" ", "-", "_"}

\* The words of a string: cut at word separators and before an upper-case
\* character that follows a lower-case one.
RECURSIVE ScanWords(_, _, _)
ScanWords(s, cur, prevLower) ==
    IF s = <<>> THEN (IF cur = <<>> THEN <<>> ELSE <<cur>>)
    ELSE LET c == Head(s) IN
         IF c \in WordSeparators
         THEN (IF cur = <<>> THEN <<>> ELSE <<cur>>) \o ScanWords(Tail(s), <<>>, FALSE)
         ELSE IF c \in UpperChars /\ prevLower
         THEN <<cur>> \o ScanWords(Tail(s), <<c>>, FALSE)
         ELSE ScanWords(Tail(s), cur \o <<c>>, c \in LowerChars)

Words(s) == ScanWords(s, <<>>, FALSE)

to_upper_case(s) == MapStr(to_upper_char, s)
to_lower_case(s) == MapStr(to_lower_char, s)
Capitalize(w) == IF w = <<>> THEN w ELSE <<to_upper_char(Head(w))>> \o to_lower_case(Tail(w))

LowerWords(s) == LET ws == Words(s) IN [i \in DOMAIN ws |-> to_lower_case(ws[i])]
UpperWords(s) == LET ws == Words(s) IN [i \in DOMAIN ws |-> to_upper_case(ws[i])]
TitleWords(s) == LET ws == Words(s) IN [i \in DOMAIN ws |-> Capitalize(ws[i])]
CamelWords(s) ==
    LET ws == Words(s)
    IN  [i \in DOMAIN ws |-> IF i = 1 THEN to_lower_case(ws[i]) ELSE Capitalize(ws[i])]

to_sentence_case(s) == JoinWith(LowerWords(s), <<" ">>)
to_title_case(s) == JoinWith(TitleWords(s), <<" ">>)
to_camel_case(s) == Flatten(CamelWords(s))
to_pascal_case(s) == Flatten(TitleWords(s))
to_kebab_case(s) == JoinWith(LowerWords(s), <<"-">>)
to_train_case(s) == JoinWith(TitleWords(s), <<"-">>)
to_snake_case(s) == JoinWith(LowerWords(s), <<"_">>)
to_constant_case(s) == JoinWith(UpperWords(s), <<"_">>)

(***************************************************************************)
(* ArgCase (data/arg_case.rs)                                              *)
(***************************************************************************)
UPPER_SUFFIX == <<"u", "p", "p", "e", "r">>
LOWER_SUFFIX == <<"l", "o", "w", "e", "r">>
SENTENCE_SUFFIX == <<"s", "e", "n", "t", "e", "n", "c", "e">>
TITLE_SUFFIX == <<"t", "i", "t", "l", "e">>
CAMEL_SUFFIX == <<"c", "a", "m", "e", "l">>
PASCAL_SUFFIX == <<"p", "a", "s", "c", "a", "l">>
KEBAB_SUFFIX == <<"k", "e", "b", "a", "b">>
TRAIN_SUFFIX == <<"t", "r", "a", "i", "n">>
SNAKE_SUFFIX == <<"s", "n", "a", "k", "e">>
CONSTANT_SUFFIX == <<"c", "o", "n", "s", "t", "a", "n", "t">>

\* The ten case conventions, in the order ArgCase::variants lists them.
CaseSuffixes ==
    <<UPPER_SUFFIX, LOWER_SUFFIX, SENTENCE_SUFFIX, TITLE_SUFFIX, CAMEL_SUFFIX,
      PASCAL_SUFFIX, KEBAB_SUFFIX, TRAIN_SUFFIX, SNAKE_SUFFIX, CONSTANT_SUFFIX>>

\* The conversion ArgCase::variants pairs with each suffix.
ApplyCase(suffix, s) ==
    CASE suffix = UPPER_SUFFIX -> to_upper_case(s)
      [] suffix = LOWER_SUFFIX -> to_lower_case(s)
      [] suffix = SENTENCE_SUFFIX -> to_sentence_case(s)
      [] suffix = TITLE_SUFFIX -> to_title_case(s)
      [] suffix = CAMEL_SUFFIX -> to_camel_case(s)
      [] suffix = PASCAL_SUFFIX -> to_pascal_case(s)
      [] suffix = KEBAB_SUFFIX -> to_kebab_case(s)
      [] suffix = TRAIN_SUFFIX -> to_train_case(s)
      [] suffix = SNAKE_SUFFIX -> to_snake_case(s)
      [] suffix = CONSTANT_SUFFIX -> to_constant_case(s)

\* ArgCase::key and ArgSeparator::key: format!("{}-{}", self.0, suffix)
SuffixKey(k, suffix) == k \o <<"-">> \o suffix

\* ArgCase::value_str
case_value_str(v, suffix) ==
    IF v.some /\ as_str(v.v).some THEN Some(VStr(ApplyCase(suffix, as_str(v.v).v))) ELSE None

\* value_array converting the first element alone
case_value_array_first_only(v, suffix) ==
    IF v.some /\ as_array(v.v).some
    THEN LET strs == FilterMapAsStr(as_array(v.v).v)
         IN  Some(VArr([i \in DOMAIN strs |->
                          VStr(IF i = 1 THEN ApplyCase(suffix, strs[i]) ELSE strs[i])]))
    ELSE None

\* ArgCase::value_array
case_value_array(v, suffix) ==
    IF v.some /\ as_array(v.v).some
    THEN LET strs == FilterMapAsStr(as_array(v.v).v)
         IN  Some(VArr([i \in DOMAIN strs |-> VStr(ApplyCase(suffix, strs[i]))]))
    ELSE None

\* ArgCase::value
case_value(v, suffix) ==
    LET str == case_value_str(v, suffix)
    IN  unwrap_or_default(IF str.some THEN str ELSE case_value_array(v, suffix))

\* ArgCase::variants
case_variants(k, v) ==
    [i \in DOMAIN CaseSuffixes |->
        <<SuffixKey(k, CaseSuffixes[i]), case_value(v, CaseSuffixes[i])>>]

(***************************************************************************)
(* ArgSeparator (data/arg_path.rs)                                         *)
(***************************************************************************)
PATH_SUFFIX == <<"p", "a", "t", "h">>
DOT_SUFFIX == <<"d", "o", "t">>

\* str::replace(|c| !c.is_ascii_alphanumeric(), separator)
replace_non_alphanumeric(from, sep) ==
    [i \in DOMAIN from |-> IF is_ascii_alphanumeric(from[i]) THEN from[i] ELSE sep]

\* coalesce merging nothing
coalesce_nothing(s, sep) == s

\* chars().coalesce(|a, b| if a == sep && a == b { Ok(sep) } else { Err((a, b)) })
RECURSIVE coalesce(_, _)
coalesce(s, sep) ==
    IF Len(s) < 2 THEN s
    ELSE IF s[1] = sep /\ s[1] = s[2]
         THEN coalesce(<<sep>> \o Tail(Tail(s)), sep)
         ELSE <<s[1]>> \o coalesce(Tail(s), sep)

\* transform dropping a separator at either end
transform_trimmed(from, sep) ==
    LET out == coalesce(replace_non_alphanumeric(from, sep), sep)
        first == IF out # <<>> /\ out[1] = sep THEN 2 ELSE 1
        last == IF Len(out) >= first /\ out[Len(out)] = sep THEN Len(out) - 1 ELSE Len(out)
    IN  SubSeq(out, first, last)

\* ArgSeparator::transform
transform(from, sep) == coalesce(replace_non_alphanumeric(from, sep), sep)

\* ArgSeparator::value_str
sep_value_str(v, sep) ==
    IF v.some /\ as_str(v.v).some THEN Some(VStr(transform(as_str(v.v).v, sep))) ELSE None

\* ArgSeparator::value_array
sep_value_array(v, sep) ==
    IF v.some /\ as_array(v.v).some
    THEN LET strs == FilterMapAsStr(as_array(v.v).v)
         IN  Some(VArr([i \in DOMAIN strs |-> VStr(transform(strs[i], sep))]))
    ELSE None

\* ArgSeparator::value
sep_value(v, sep) ==
    LET str == sep_value_str(v, sep)
    IN  unwrap_or_default(IF str.some THEN str ELSE sep_value_array(v, sep))

\* ArgSeparator::variants
sep_variants(k, v) ==
    <<  <<SuffixKey(k, PATH_SUFFIX), sep_value(v, "/")>>,
        <<SuffixKey(k, DOT_SUFFIX), sep_value(v, ".")>>  >>

(***************************************************************************)
(* Schema model (template/arg_kind.rs, template/local_arg.rs)              *)
(***************************************************************************)
\* LocalArgKind; possible-values only constrain what the command line
\* accepts and are left out.
FLAG(negate) == [tag |-> "FLAG", negate |-> negate]
ARG(default) == [tag |-> "ARG", default |-> default]
MULTI(default) == [tag |-> "MULTI", default |-> default]
CMD(order, default, cmd) == [tag |-> "CMD", order |-> order, default |-> default, cmd |-> cmd]

\* LocalInitializrArg; about, short and long only shape the command line.
LocalInitializrArg(kind) == [kind |-> kind]

\* ArgCmd (data/arg_cmd.rs)
ArgCmd(order, cmd, is_default) == [order |-> order, cmd |-> cmd, is_default |-> is_default]

\* LocalInitializrArg::maybe_cmd
maybe_cmd(arg) ==
    IF arg.kind.some /\ arg.kind.v.tag = "CMD"
    THEN Some(ArgCmd(IF arg.kind.v.order.some THEN arg.kind.v.order.v ELSE 0,
                     arg.kind.v.cmd,
                     IF arg.kind.v.default.some THEN arg.kind.v.default.v ELSE FALSE))
    ELSE None

\* maybe_flag finding no flag
maybe_flag_none(arg) == None

\* LocalInitializrArg::maybe_flag
maybe_flag(arg) ==
    IF arg.kind.some /\ arg.kind.v.tag = "FLAG" THEN Some(TRUE) ELSE None

\* is_negate_flag reading every flag as a plain one
is_negate_flag_never(arg) == FALSE

\* LocalInitializrArg::is_negate_flag
is_negate_flag(arg) ==
    IF arg.kind.some /\ arg.kind.v.tag = "FLAG"
    THEN (IF arg.kind.v.negate.some THEN arg.kind.v.negate.v ELSE FALSE)
    ELSE FALSE

\* is_default forgetting the commands run by default
is_default_flag_only(arg) == is_negate_flag(arg)

\* LocalInitializrArg::is_default
is_default(arg) ==
    LET is_default_cmd == IF maybe_cmd(arg).some THEN maybe_cmd(arg).v.is_default ELSE FALSE
        is_default_flag == is_negate_flag(arg)
    IN  is_default_cmd \/ is_default_flag

\* LocalInitializrArg::is_multi
is_multi(arg) == arg.kind.some /\ arg.kind.v.tag = "MULTI"

(***************************************************************************)
(* DataArg (data/data_arg.rs)                                              *)
(***************************************************************************)
\* DataArg::original
original(k, v) == <<k, unwrap_or_default(v)>>

\* A conversion that does not know commands
DataArgFrom_no_cmd(k, v, maybe_arg) ==
    IF maybe_arg.some /\ maybe_flag(maybe_arg.v).some
    THEN [variants |-> << <<k, VBool(maybe_flag(maybe_arg.v).v)>> >>, cmd |-> None]
    ELSE [variants |-> case_variants(k, v) \o sep_variants(k, v) \o <<original(k, v)>>,
          cmd |-> None]

\* impl From<(String, Option<Value>, Option<LocalInitializrArg>)> for DataArg
DataArgFrom(k, v, maybe_arg) ==
    IF maybe_arg.some /\ maybe_cmd(maybe_arg.v).some
    THEN [variants |-> <<>>, cmd |-> maybe_cmd(maybe_arg.v)]
    ELSE IF maybe_arg.some /\ maybe_flag(maybe_arg.v).some
    THEN [variants |-> << <<k, VBool(maybe_flag(maybe_arg.v).v)>> >>, cmd |-> None]
    ELSE [variants |-> case_variants(k, v) \o sep_variants(k, v) \o <<original(k, v)>>,
          cmd |-> None]

\* DataArg::is_not_cmd
is_not_cmd(d) == ~d.cmd.some

\* The DataArg built from (key, value, maybe_arg), together with what it was
\* built from: of_name (the name of the argument on the command line),
\* of_key, of_value and of_arg are history fields the program does not keep.
Traced(name, key, value, maybe_arg) ==
    LET d == DataArgFrom(key, value, maybe_arg)
    IN  [of_name |-> name, of_key |-> key, of_value |-> value, of_arg |-> maybe_arg,
         variants |-> d.variants, cmd |-> d.cmd]

(***************************************************************************)
(* Command-line matches (clap::ArgMatches of the selected template)        *)
(***************************************************************************)
\* ArgMatches holds an entry, with its values, for every argument that
\* occurred on the command line or has a default value.
is_present(a, key) == key \in DOMAIN a
value_of(a, key) ==
    IF key \in DOMAIN a /\ a[key] # <<>> THEN Some(a[key][1]) ELSE None
values_of(a, key) ==
    IF key \in DOMAIN a /\ a[key] # <<>> THEN Some(a[key]) ELSE None

(***************************************************************************)
(* Resolver (data/mod.rs, cmd.rs)                                          *)
(***************************************************************************)
PROJ_KEY == <<"p", "r", "o", "j">>
PROJECT_NAME_ARG_NAME == <<"p", "r", "o", "j", "e", "c", "t", "-", "n", "a", "m", "e">>
DEFAULT_PROJECT_NAME == <<"s", "a", "m", "p", "l", "e">>

IDEA == <<"i", "d", "e", "a">>
CODE == <<"c", "o", "d", "e">>
DRY == <<"d", "r", "y">>
README == <<"r", "e", "a", "d", "m", "e">>
FORCE == <<"f", "o", "r", "c", "e">>

\* InitializrStdArgs::variants: the field names of InitializrStdArgs
StdArgsVariants == <<IDEA, CODE, DRY, README, FORCE>>

\* InitializrData::trim_arg_key
RECURSIVE trim_arg_key(_)
trim_arg_key(key) ==
    IF key # <<>> /\ Head(key) = "-" THEN trim_arg_key(Tail(key)) ELSE key

\* Iteration order of a BTreeMap<String, _>: ascending keys
RECURSIVE SortedKeys(_)
SortedKeys(S) ==
    IF S = {} THEN <<>>
    ELSE LET m == CHOOSE x \in S : \A y \in S \ {x} : StrLess(x, y)
         IN  <<m>> \o SortedKeys(S \ {m})

\* The (key, Some(arg)) pairs of one LocalInitializrArgs map
MapEntries(m) ==
    LET keys == SortedKeys(DOMAIN m) IN [i \in DOMAIN keys |-> <<keys[i], Some(m[keys[i]])>>]

\* InitializrData::local_template_args
RECURSIVE local_template_args(_)
local_template_args(local_args) ==
    IF local_args = <<>> THEN <<>>
    ELSE (IF Head(local_args)[2].some THEN MapEntries(Head(local_args)[2].v) ELSE <<>>)
         \o local_template_args(Tail(local_args))

\* The filter closure keeping what is present, whatever its default
is_selected_present_only(a, key, maybe_arg) == is_present(a, key)

\* The filter closure of parse_args: is_present.bitxor(is_default)
is_selected(a, key, maybe_arg) ==
    LET present == is_present(a, key)
        default == IF maybe_arg.some THEN is_default(maybe_arg.v) ELSE FALSE
    IN  present # default

\* A value closure that reads an argument without a value as true
arg_value_true_when_bare(a, key, maybe_arg) ==
    IF value_of(a, key).some THEN Some(VStr(value_of(a, key).v)) ELSE Some(VBool(TRUE))

\* The value closure of parse_args
arg_value(a, key, maybe_arg) ==
    IF (IF maybe_arg.some THEN is_multi(maybe_arg.v) ELSE FALSE)
    THEN LET values == values_of(a, key)
         IN  IF values.some THEN Some(VArr([i \in DOMAIN values.v |-> VStr(values.v[i])]))
             ELSE None
    ELSE (IF value_of(a, key).some THEN Some(VStr(value_of(a, key).v)) ELSE None)

\* merge_by(other, |_, _| true): every element of the first iterator, then
\* every element of the second
merge_by_true(first, second) == first \o second

\* The flat_map of parse_args over the (key, maybe_arg) pairs
RECURSIVE parse_each(_, _)
parse_each(matched_args, pairs) ==
    IF pairs = <<>> THEN <<>>
    ELSE LET key == Head(pairs)[1]
             maybe_arg == Head(pairs)[2]
         IN  (IF matched_args.some /\ is_selected(matched_args.v, key, maybe_arg)
              THEN <<Traced(key, trim_arg_key(key),
                            arg_value(matched_args.v, key, maybe_arg),
                            maybe_arg)>>
              ELSE <<>>)
             \o parse_each(matched_args, Tail(pairs))

\* parse_args with the standard arguments merged before the template's
parse_args_std_first(matched_args, local_args) ==
    parse_each(matched_args,
               merge_by_true([i \in DOMAIN StdArgsVariants |-> <<StdArgsVariants[i], None>>],
                             local_template_args(local_args)))

\* InitializrData::parse_args
parse_args(matched_args, local_args) ==
    parse_each(matched_args,
               merge_by_true(local_template_args(local_args),
                             [i \in DOMAIN StdArgsVariants |-> <<StdArgsVariants[i], None>>]))

\* InitializrData::parse_project_name
parse_project_name(matched_args) ==
    LET proj_name == IF matched_args.some /\ value_of(matched_args.v, PROJECT_NAME_ARG_NAME).some
                     THEN Some(VStr(value_of(matched_args.v, PROJECT_NAME_ARG_NAME).v))
                     ELSE None
    IN  Traced(PROJECT_NAME_ARG_NAME, PROJ_KEY, proj_name, None)

\* The DataArgs with the project name merged first
resolved_data_args_proj_first(matched_args, local_args) ==
    merge_by_true(<<parse_project_name(matched_args)>>, parse_args(matched_args, local_args))

\* The DataArgs resolved from the command line, in merge order
resolved_data_args(matched_args, local_args) ==
    merge_by_true(parse_args(matched_args, local_args), <<parse_project_name(matched_args)>>)

\* An ordering of ArgCmd that looks at the order alone
ArgCmdLess_order_only(x, y) == x.order < y.order

\* Ord for ArgCmd (derived): order, then cmd, then is_default
ArgCmdLess(x, y) ==
    IF x.order # y.order THEN x.order < y.order
    ELSE IF x.cmd # y.cmd THEN StrLess(x.cmd, y.cmd)
    ELSE (~x.is_default) /\ y.is_default

\* Itertools::sorted (a stable sort): insert each element after the
\* elements that are not greater
RECURSIVE InsertSorted(_, _)
InsertSorted(x, s) ==
    IF s = <<>> THEN <<x>>
    ELSE IF ArgCmdLess(x, Head(s)) THEN <<x>> \o s
    ELSE <<Head(s)>> \o InsertSorted(x, Tail(s))

RECURSIVE sorted(_)
sorted(s) ==
    IF s = <<>> THEN <<>>
    ELSE InsertSorted(s[Len(s)], sorted(SubSeq(s, 1, Len(s) - 1)))

\* commands.iter().filter_map(|it| it.cmd.to_owned())
filter_map_cmd(ds) ==
    LET cs == SelectSeq(ds, LAMBDA d : d.cmd.some) IN [i \in DOMAIN cs |-> cs[i].cmd.v]

\* collect keeping the first pair of every key
collect_first_wins(pairs) ==
    LET keys == {pairs[i][1] : i \in DOMAIN pairs}
        first(k) == LET at == {i \in DOMAIN pairs : pairs[i][1] = k}
                    IN  CHOOSE i \in at : \A j \in at : i <= j
    IN  [k \in keys |-> pairs[first(k)][2]]

\* Map<String, Value> built by collect(): the pairs are inserted in order
\* and an insertion replaces the value of a key already in the map, so
\* every key holds the value of its last pair
collect(pairs) ==
    LET keys == {pairs[i][1] : i \in DOMAIN pairs}
        last(k) == LET at == {i \in DOMAIN pairs : pairs[i][1] = k}
                   IN  CHOOSE i \in at : \A j \in at : j <= i
    IN  [k \in keys |-> pairs[last(k)][2]]

\* args.into_iter().flat_map(|it| it.variants)
flat_map_variants(ds) == Flatten([i \in DOMAIN ds |-> ds[i].variants])

\* project_name answering the default whatever the context holds
project_name_default_always(m) == DEFAULT_PROJECT_NAME

\* InitializrData::project_name
project_name(m) ==
    IF PROJ_KEY \in DOMAIN m /\ as_str(m[PROJ_KEY]).some
    THEN as_str(m[PROJ_KEY]).v
    ELSE DEFAULT_PROJECT_NAME

\* InitializrData::contains
contains(m, key) == \E k \in DOMAIN m : k = key

\* InitializrData::multi_args
multi_args(m) == {k \in DOMAIN m : as_array(m[k]).some}

(***************************************************************************)
(* Schema loading (template/mod.rs)                                        *)
(***************************************************************************)
\* A zr.toml on disk: absent, present but not a schema, or a schema
NoFile == [state |-> "missing"]
BadFile == [state |-> "malformed"]
SchemaFile(schema) == [state |-> "valid", schema |-> schema]

\* Path::exists
exists(file) == file.state # "missing"

\* Tomlable::from_file for LocalInitializrArgs
from_file(file) ==
    IF file.state = "valid" THEN [ok |-> TRUE, v |-> file.schema] ELSE [ok |-> FALSE]

\* BTreeMap::append: every entry of other moves into self, and a key of
\* both takes the value it has in other
append(self, other) ==
    [k \in DOMAIN self \cup DOMAIN other |->
        IF k \in DOMAIN other THEN other[k] ELSE self[k]]

\* InitializrTemplate::root_config; else_warn only logs
root_config(root) ==
    IF exists(root) /\ from_file(root).ok THEN Some(from_file(root).v) ELSE None

\* all_args giving no schema to a template whose own file cannot be read
template_args_none_when_unreadable(root_args, local) ==
    IF exists(local) /\ from_file(local).ok
    THEN (IF root_args.some THEN Some(append(from_file(local).v, root_args.v))
          ELSE Some(from_file(local).v))
    ELSE None

\* The closure of InitializrTemplate::all_args over one template's file
template_args(root_args, local) ==
    IF exists(local)
    THEN IF from_file(local).ok
         THEN (IF root_args.some
               THEN Some(append(from_file(local).v, root_args.v))
               ELSE Some(from_file(local).v))
         ELSE root_args
    ELSE root_args

\* InitializrTemplate::all_args
all_args(root, locals) ==
    LET root_args == root_config(root)
    IN  [i \in DOMAIN locals |->
            <<locals[i].path, template_args(root_args, locals[i].file)>>]

(***************************************************************************)
(* Instantiation (lib.rs)                                                  *)
(***************************************************************************)
TEMPLATE_README == <<"R", "E", "A", "D", "M", "E", ".", "m", "d">>
HIDDEN_PATH_ESCAPER == "!"

\* str::ends_with / str::starts_with
ends_with(s, suffix) ==
    Len(suffix) <= Len(s) /\ SubSeq(s, Len(s) - Len(suffix) + 1, Len(s)) = suffix
starts_with(s, prefix) == Len(prefix) <= Len(s) /\ SubSeq(s, 1, Len(prefix)) = prefix

\* What handlebars writes for the expression {{key}}: nothing for a key the
\* context lacks (strict mode is off) or for null, the string itself for a
\* string, true or false for a boolean.  The strings of the inputs hold no
\* character the html escape of handlebars rewrites.
render_value(ctx, key) ==
    IF key \notin DOMAIN ctx THEN <<>>
    ELSE CASE ctx[key].t = "str" -> ctx[key].s
           [] ctx[key].t = "null" -> <<>>
           [] ctx[key].t = "bool" ->
                IF ctx[key].b THEN <<"t", "r", "u", "e">> ELSE <<"f", "a", "l", "s", "e">>

\* The position of the first "}}" of s, 0 when there is none
RECURSIVE find_close(_, _)
find_close(s, i) ==
    IF i >= Len(s) THEN 0
    ELSE IF s[i] = "}" /\ s[i + 1] = "}" THEN i
    ELSE find_close(s, i + 1)

\* Handlebars::render_template and render_template_with_context on a
\* template string of text and {{key}} expressions: Err (None) for an
\* expression that is not closed, and for the call {{h x}} of a helper,
\* none being registered under the names the inputs use
RECURSIVE render_template_string(_, _)
render_template_string(s, ctx) ==
    IF s = <<>> THEN Some(<<>>)
    ELSE IF starts_with(s, <<"{", "{">>)
    THEN LET close == find_close(s, 3)
         IN  IF close = 0 THEN None
             ELSE IF \E i \in 3..(close - 1) : s[i] = " " THEN None
             ELSE LET rest == render_template_string(SubSeq(s, close + 2, Len(s)), ctx)
                  IN  IF rest.some
                      THEN Some(render_value(ctx, SubSeq(s, 3, close - 1)) \o rest.v)
                      ELSE None
    ELSE LET rest == render_template_string(Tail(s), ctx)
         IN  IF rest.some THEN Some(<<Head(s)>> \o rest.v) ELSE None

\* One pair of the list Initializr::maybe_duplicate returns; template, of_key
\* and of_index record where the pair comes from
Artifact(template, name, is_duplicate, of_key, of_index) ==
    [template |-> template, name |-> name, is_duplicate |-> is_duplicate,
     of_key |-> of_key, of_index |-> of_index]

\* maybe_duplicate walking the values of a multi-value argument backwards
copies_of_key_reversed(name, m, k) ==
    LET values == as_array(m[k]).v
        n == Len(values)
        rendered == [i \in DOMAIN values |->
                        render_template_string(name, (k :> values[n + 1 - i]))]
        kept == SelectSeq([i \in DOMAIN values |-> i], LAMBDA i : rendered[i].some)
    IN  [j \in DOMAIN kept |-> Artifact(name, rendered[kept[j]].v, TRUE, k, n + 1 - kept[j])]

\* The inner closure of maybe_duplicate for one (k, values) of multi_args:
\* the name rendered in the context {k: v} for each value v in turn
copies_of_key(name, m, k) ==
    LET values == as_array(m[k]).v
        rendered == [i \in DOMAIN values |->
                        render_template_string(name, (k :> values[i]))]
        kept == SelectSeq([i \in DOMAIN values |-> i], LAMBDA i : rendered[i].some)
    IN  [j \in DOMAIN kept |-> Artifact(name, rendered[kept[j]].v, TRUE, k, kept[j])]

\* Initializr::maybe_duplicate; multi_args follows the key order of the
\* context map
maybe_duplicate(name, m) ==
    LET keys == SortedKeys(multi_args(m))
        duplicated == Flatten([j \in DOMAIN keys |-> copies_of_key(name, m, keys[j])])
    IN  IF duplicated = <<>> THEN <<Artifact(name, name, FALSE, <<>>, 0)>> ELSE duplicated

\* PathBuf::join of the destination (the project name under the current
\* directory) and a rendered name: an absolute name replaces it
join(destination, name) ==
    IF starts_with(name, <<"/">>) THEN name ELSE destination \o <<"/">> \o name

\* The index where the file name of a path starts (Path::file_name)
RECURSIVE file_name_start(_, _)
file_name_start(path, i) ==
    IF i = 0 THEN 1
    ELSE IF path[i] = "/" THEN i + 1
    ELSE file_name_start(path, i - 1)

\* escape_hidden_files putting a dot where the marker was
escape_hidden_files_with_dot(fs, path) ==
    LET start == file_name_start(path, Len(path))
    IN  IF start <= Len(path) /\ path[start] = HIDDEN_PATH_ESCAPER
        THEN LET to == SubSeq(path, 1, start - 1) \o <<".">> \o SubSeq(path, start + 1, Len(path))
             IN  [q \in (DOMAIN fs \ {path}) \cup {to} |-> IF q = to THEN fs[path] ELSE fs[q]]
        ELSE fs

\* Initializr::escape_hidden_files: a file whose name starts with the
\* marker is renamed (fs::rename) to the name without it
escape_hidden_files(fs, path) ==
    LET start == file_name_start(path, Len(path))
    IN  IF start <= Len(path) /\ path[start] = HIDDEN_PATH_ESCAPER
        THEN LET to == SubSeq(path, 1, start - 1) \o SubSeq(path, start + 1, Len(path))
             IN  [q \in (DOMAIN fs \ {path}) \cup {to} |-> IF q = to THEN fs[path] ELSE fs[q]]
        ELSE fs

\* Whether a path is a directory of fs: some file lies under it
is_dir(fs, path) == \E q \in DOMAIN fs : starts_with(q, path \o <<"/">>)

\* Path::parent: the path without its last component, empty for a file at
\* the root
parent(path) == SubSeq(path, 1, file_name_start(path, Len(path)) - 2)

\* PathExt::create_dir_all (fs::create_dir_all) of the parent of a file:
\* Err where a component of the path is a file, and where a directory is
\* missing under a root the user may not write
create_dir_all(fs, dir, root_writable) ==
    /\ \A k \in 1..Len(dir) :
          (k = Len(dir) \/ dir[k + 1] = "/") => SubSeq(dir, 1, k) \notin DOMAIN fs
    /\ (starts_with(dir, <<"/">>) /\ ~root_writable) => is_dir(fs, dir)

\* PathExt::open_new (create_new): Err on an existing file or directory, and
\* in a directory the user may not write
open_new(fs, path, root_writable) ==
    /\ path \notin DOMAIN fs
    /\ ~is_dir(fs, path)
    /\ ~(starts_with(path, <<"/">>) /\ ~root_writable)

\* What one call of render_template leaves: the files, whether it warned
\* and whether it panicked
Rendered(fs, warned, panicked) == [fs |-> fs, warned |-> warned, panicked |-> panicked]

\* Initializr::render_template on the files fs: the name is rendered with
\* the whole data and joined to the destination, the parents are created
\* (fail: a panic on Err), the file is created (open_new), the registered
\* template of that name is rendered into it, and the file is renamed if
\* hidden. A name that is no registered template leaves the file empty, and
\* is no error for a duplicate. Every Err but that of the parents ends in
\* warn.
render_template(fs, templates, m, artifact, root_writable) ==
    LET out == render_template_string(artifact.name, m)
        path == join(project_name(m), out.v)
        found == artifact.name \in DOMAIN templates
        content == render_template_string(templates[artifact.name], m)
        created == [q \in DOMAIN fs \cup {path} |-> IF q = path THEN <<>> ELSE fs[q]]
    IN  IF ~out.some THEN Rendered(fs, TRUE, FALSE)
        ELSE IF ~create_dir_all(fs, parent(path), root_writable) THEN Rendered(fs, FALSE, TRUE)
        ELSE IF ~open_new(fs, path, root_writable) THEN Rendered(fs, TRUE, FALSE)
        ELSE IF ~found
        THEN (IF artifact.is_duplicate
              THEN Rendered(escape_hidden_files(created, path), FALSE, FALSE)
              ELSE Rendered(created, TRUE, FALSE))
        ELSE IF content.some
        THEN Rendered(escape_hidden_files([q \in DOMAIN created |->
                                              IF q = path THEN content.v ELSE created[q]], path),
                      FALSE, FALSE)
        ELSE Rendered(created, TRUE, FALSE)

\* One line of what the run did: a call of render_template (ev "render",
\* or "panic" when it ended the process) with the name of the pair, or a
\* step of ProjectActions::apply; ok is FALSE when the step warned; existed
\* tells that the path of the file was there before the call, modified that
\* a file that was there before holds something else after it
Entry(ev, what, ok, existed, modified) ==
    [ev |-> ev, what |-> what, ok |-> ok, existed |-> existed, modified |-> modified]

\* The for_each of new_project over the pairs of maybe_duplicate, from the
\* files and the lines of state; a panic ends it
RECURSIVE render_all(_, _, _, _, _)
render_all(state, templates, m, list, root_writable) ==
    IF list = <<>> THEN state
    ELSE LET fs == state.fs
             next == render_template(fs, templates, m, Head(list), root_writable)
             out == render_template_string(Head(list).name, m)
             existed == out.some /\ join(project_name(m), out.v) \in DOMAIN fs
             modified == \E q \in DOMAIN fs : q \notin DOMAIN next.fs \/ next.fs[q] # fs[q]
             line == Entry(IF next.panicked THEN "panic" ELSE "render", Head(list).name,
                           ~next.warned /\ ~next.panicked, existed, modified)
             after == [fs |-> next.fs, log |-> Append(state.log, line),
                       panicked |-> next.panicked]
         IN  \* the files of one step are there before the next step starts
             IF after.panicked THEN after
             ELSE render_all(after, templates, m, Tail(list), root_writable)

\* The filter of new_project leaving out the files named README.md only
keeps_template_named_readme(name, m) ==
    ~(name = TEMPLATE_README \/ ends_with(name, <<"/">> \o TEMPLATE_README))
        \/ contains(m, README)

\* The filter of new_project keeping every README.md
keeps_template_always(name, m) == TRUE

\* The filter of new_project
keeps_template(name, m) == ~ends_with(name, TEMPLATE_README) \/ contains(m, README)

(***************************************************************************)
(* Overwriting and post-generation actions (lib.rs, actions.rs)            *)
(***************************************************************************)
\* PathExt::delete_dir (fs::remove_dir_all): the files under the path go
delete_dir(fs, path) ==
    [q \in {r \in DOMAIN fs : ~starts_with(r, path \o <<"/">>)} |-> fs[q]]

\* str::trim on the line read from the terminal
RECURSIVE trim(_)
trim(s) ==
    IF s # <<>> /\ Head(s) \in {" ", "\n"} THEN trim(Tail(s))
    ELSE IF s # <<>> /\ s[Len(s)] \in {" ", "\n"} THEN trim(SubSeq(s, 1, Len(s) - 1))
    ELSE s

\* Asker::ask taking every answer for a yes
user_answered_yes_always(answer) == TRUE

\* Asker::ask: yes is the answer y, in either case, spaces aside
user_answered_yes(answer) == to_lower_case(trim(answer)) = <<"y">>

\* Initializr::propose_overwrite: an existing destination is deleted at
\* once with force, and after a yes of the user without; ok is the is_ok()
\* new_project tests
propose_overwrite(fs, m, answer) ==
    LET proj_path == project_name(m)
    IN  IF is_dir(fs, proj_path)
        THEN IF contains(m, FORCE)
             THEN [ok |-> TRUE, fs |-> delete_dir(fs, proj_path), steps |-> <<>>]
             ELSE IF user_answered_yes(answer)
             THEN [ok |-> TRUE, fs |-> delete_dir(fs, proj_path),
                   steps |-> <<Entry("ask", answer, TRUE, FALSE, FALSE)>>]
             ELSE [ok |-> FALSE, fs |-> fs,
                   steps |-> <<Entry("ask", answer, FALSE, FALSE, FALSE)>>]
        ELSE [ok |-> TRUE, fs |-> fs, steps |-> <<>>]

\* The repository Git::init leaves in the project
GitHead(path) == path \o <<"/", ".", "g", "i", "t", "/", "H", "E", "A", "D">>

\* ProjectActions::git_init with its warn: ok is what the library answers
git_init(fs, path, ok) ==
    [fs |-> IF ok THEN [q \in DOMAIN fs \cup {GitHead(path)} |->
                          IF q \in DOMAIN fs THEN fs[q] ELSE <<>>]
            ELSE fs,
     steps |-> <<Entry("git", <<>>, ok, FALSE, FALSE)>>]

\* then_execute_commands giving up at the first command that fails
RECURSIVE then_execute_commands_until_failure(_, _)
then_execute_commands_until_failure(cmds, run_ok) ==
    IF cmds = <<>> THEN <<>>
    ELSE <<Entry("cmd", Head(cmds), Head(run_ok), FALSE, FALSE)>>
         \o (IF Head(run_ok)
             THEN then_execute_commands_until_failure(Tail(cmds), Tail(run_ok))
             ELSE <<>>)

\* ProjectActions::then_execute_commands: Shell::run of each command in
\* turn, run_ok being what the shell answers, a failure ending in warn
then_execute_commands(cmds, run_ok) ==
    [i \in DOMAIN cmds |-> Entry("cmd", cmds[i], run_ok[i], FALSE, FALSE)]

\* ProjectActions::idea_open and vs_code_open
idea_open(m, ok) ==
    IF contains(m, IDEA) THEN <<Entry("idea", <<>>, ok, FALSE, FALSE)>> ELSE <<>>
vs_code_open(m, ok) ==
    IF contains(m, CODE) THEN <<Entry("code", <<>>, ok, FALSE, FALSE)>> ELSE <<>>

\* ProjectActions::erase_if_dry
erase_if_dry(fs, m, path) ==
    IF contains(m, DRY)
    THEN [fs |-> delete_dir(fs, path), steps |-> <<Entry("erase", <<>>, TRUE, FALSE, FALSE)>>]
    ELSE [fs |-> fs, steps |-> <<>>]

\* ProjectActions::apply erasing before anything else
apply_erasing_first(fs, m, path, cmds, git_ok, run_ok, idea_ok, code_ok) ==
    IF ~is_dir(fs, path)
    THEN [fs |-> fs, steps |-> <<Entry("chdir", <<>>, FALSE, FALSE, FALSE)>>]
    ELSE LET erased == erase_if_dry(fs, m, path)
             git == git_init(erased.fs, path, git_ok)
         IN  [fs |-> git.fs,
              steps |-> erased.steps \o git.steps \o then_execute_commands(cmds, run_ok)
                        \o idea_open(m, idea_ok) \o vs_code_open(m, code_ok)]

\* ProjectActions::apply under then_initialize: nothing is done when the
\* project directory cannot be entered (set_current_dir with ?)
apply(fs, m, path, cmds, git_ok, run_ok, idea_ok, code_ok) ==
    IF ~is_dir(fs, path)
    THEN [fs |-> fs, steps |-> <<Entry("chdir", <<>>, FALSE, FALSE, FALSE)>>]
    ELSE LET git == git_init(fs, path, git_ok)
             erased == erase_if_dry(git.fs, m, path)
         IN  [fs |-> erased.fs,
              steps |-> git.steps \o then_execute_commands(cmds, run_ok)
                        \o idea_open(m, idea_ok) \o vs_code_open(m, code_ok)
                        \o erased.steps]

(***************************************************************************)
(* Operations                                                              *)
(***************************************************************************)
\* impl From<PreInitializrArgs> for InitializrData: the matches of the
\* command line against the dynamic application are taken from the input.
FromPreInitializrArgs ==
    /\ pc = "init"
    /\ input.kind = "cli"
    /\ LET all == resolved_data_args(input.matched_args, input.local_args)
           nonCmds == SelectSeq(all, is_not_cmd)
           cmdArgs == SelectSeq(all, LAMBDA d : ~is_not_cmd(d))
           cmds == sorted(filter_map_cmd(cmdArgs))
       IN  /\ data_args' = all
           /\ sorted_cmds' = cmds
           /\ commands' = [i \in DOMAIN cmds |-> cmds[i].cmd]
           /\ args' = collect(flat_map_variants(nonCmds))
    /\ pc' = "resolved"
    /\ UNCHANGED <<input, pre_args, artifacts, files, log, steps>>

\* impl From<(Vec<DataArg>, Vec<String>)> for InitializrData, on DataArgs
\* built with DataArg::from as the helpers data() and multi_data() do.
FromDataArgs ==
    /\ pc = "init"
    /\ input.kind = "direct"
    /\ LET ds == [i \in DOMAIN input.triples |->
                    Traced(input.triples[i][1], input.triples[i][1],
                           input.triples[i][2], input.triples[i][3])]
       IN  /\ data_args' = ds
           /\ args' = collect(flat_map_variants(ds))
    /\ commands' = input.commands
    /\ sorted_cmds' = <<>>
    /\ pc' = "built"
    /\ UNCHANGED <<input, pre_args, artifacts, files, log, steps>>

\* InitializrTemplate::all_args over the files of a templates directory
AllArgs ==
    /\ pc = "init"
    /\ input.kind = "files"
    /\ pre_args' = all_args(input.root, input.locals)
    /\ pc' = "loaded"
    /\ UNCHANGED <<input, data_args, sorted_cmds, args, commands, artifacts, files, log, steps>>

\* Initializr::new_project up to then_initialize: the registered
\* templates come in the order of a HashMap, any order; nothing is rendered
\* when propose_overwrite is not ok; a panic of render_template ends the
\* process.
NewProject ==
    /\ pc = "built"
    /\ "templates" \in DOMAIN input
    /\ \E order \in [1..Cardinality(DOMAIN input.templates) -> DOMAIN input.templates] :
        /\ \A i, j \in DOMAIN order : i # j => order[i] # order[j]
        /\ LET overwrite == propose_overwrite(files, args, input.answer)
               names == SelectSeq(order, LAMBDA name : keeps_template(name, args))
               list == Flatten([i \in DOMAIN names |-> maybe_duplicate(names[i], args)])
               done == render_all([fs |-> overwrite.fs, log |-> <<>>, panicked |-> FALSE],
                                  input.templates, args, list, input.root_writable)
           IN  /\ steps' = overwrite.steps
               /\ IF overwrite.ok
                  THEN /\ artifacts' = list
                       /\ files' = done.fs
                       /\ log' = done.log
                       /\ pc' = IF done.panicked THEN "panicked" ELSE "generated"
                  ELSE /\ UNCHANGED <<artifacts, files, log>>
                       /\ pc' = "declined"
    /\ UNCHANGED <<input, data_args, sorted_cmds, args, commands, pre_args>>

\* Initializr::then_initialize: ProjectActions::apply in the generated
\* project; what git, the shell and the editors answer is theirs to choose
ThenInitialize ==
    /\ pc = "generated"
    /\ \E git_ok, idea_ok, code_ok \in BOOLEAN, run_ok \in [DOMAIN commands -> BOOLEAN] :
        LET applied == apply(files, args, project_name(args), commands,
                             git_ok, run_ok, idea_ok, code_ok)
        IN  /\ files' = applied.fs
            /\ steps' = steps \o applied.steps
    /\ pc' = "done"
    /\ UNCHANGED <<input, data_args, sorted_cmds, args, commands, pre_args, artifacts, log>>

Next == FromPreInitializrArgs \/ FromDataArgs

NextCmd == FromPreInitializrArgs

(***************************************************************************)
(* Inputs                                                                  *)
(***************************************************************************)
\* Bounds
MaxArgs == 2        \* arguments declared by the template's schema
MaxLen == 2         \* values of a multi-value argument
MaxStrLen == 3      \* characters of an enumerated value
MaxOrder == 1       \* order of a command

RECURSIVE SeqsUpTo(_, _)
SeqsUpTo(S, n) ==
    IF n = 0 THEN {<<>>}
    ELSE SeqsUpTo(S, n - 1) \cup {Append(s, x) : s \in SeqsUpTo(S, n - 1), x \in S}

NonEmptySeqsUpTo(S, n) == SeqsUpTo(S, n) \ {<<>>}

OptionOf(S) == {None} \cup {Some(x) : x \in S}

\* Names a schema may declare: one with leading dashes (its key is "a"), one
\* that is a variant key of "a", and the reserved project key.
NameDashA == <<"-", "-", "a">>
NameAPath == <<"a", "-", "p", "a", "t", "h">>
TemplateNames == {NameDashA, NameAPath, PROJ_KEY}
ScalarValue == <<"x", "Y">>
\* The values of a multi-value argument: the first n of a repeating list
MultiValue(i) == IF i % 2 = 1 THEN <<"y", "-", "Z">> ELSE <<"x">>
MultiValues == {[i \in 1..n |-> MultiValue(i)] : n \in 1..MaxLen}
DefaultValue == <<"d">>
CmdLineZ == <<"z">>

\* A definition together with what the command line can hold for it:
\* m is None when the argument has no entry in the matches. A flag or a
\* command takes no value; an argument with a default value always has an
\* entry.
FlagInputs(negates) ==
    {[arg |-> LocalInitializrArg(Some(FLAG(n))), m |-> m] :
        n \in negates, m \in {None, Some(<<>>)}}
ScalarInputs ==
    {[arg |-> LocalInitializrArg(Some(ARG(None))), m |-> m] :
        m \in {None, Some(<<ScalarValue>>)}}
DefaultedScalarInputs ==
    {[arg |-> LocalInitializrArg(Some(ARG(Some(DefaultValue)))), m |-> Some(<<v>>)] :
        v \in {ScalarValue, DefaultValue}}
MultiInputs ==
    {[arg |-> LocalInitializrArg(Some(MULTI(None))), m |-> m] :
        m \in OptionOf(MultiValues)}
CmdInputs(orders, defaults, cmdLines) ==
    {[arg |-> LocalInitializrArg(Some(CMD(o, d, c))), m |-> m] :
        o \in orders, d \in defaults, c \in cmdLines, m \in {None, Some(<<>>)}}

\* What each name of a schema may declare: every kind for the first name,
\* and for the names that share a key with another argument the kinds that
\* write that key or none
ArgInputs ==
    [n \in TemplateNames |->
        IF n = NameDashA
        THEN FlagInputs(OptionOf(BOOLEAN)) \cup ScalarInputs \cup DefaultedScalarInputs
             \cup MultiInputs \cup CmdInputs({None}, OptionOf(BOOLEAN), {CmdLineZ})
        ELSE IF n = NameAPath
        THEN FlagInputs(OptionOf(BOOLEAN)) \cup ScalarInputs
             \cup CmdInputs({None}, {None}, {CmdLineZ})
        ELSE FlagInputs({None}) \cup ScalarInputs \cup CmdInputs({None}, {None}, {CmdLineZ})]

\* The rest of a command line: the standard flags supplied and the
\* project name
StdAndName ==
    { [std |-> {}, name |-> <<"p">>],
      [std |-> {README}, name |-> <<"a", "-", "b">>],
      [std |-> {DRY, FORCE}, name |-> <<"p">>] }

\* The input of a run: the schema of the selected template (one entry, as
\* Initializr::bootstrap filters by the template's path) and the matches.
CliInput(f, std, name) ==
    [kind |-> "cli",
     local_args |-> << <<"zr.toml", IF DOMAIN f = {} THEN None
                                     ELSE Some([n \in DOMAIN f |-> f[n].arg])>> >>,
     matched_args |->
        Some([k \in {n \in DOMAIN f : f[n].m.some} \cup std \cup {PROJECT_NAME_ARG_NAME} |->
                IF k = PROJECT_NAME_ARG_NAME THEN <<name>>
                ELSE IF k \in std THEN <<>>
                ELSE f[k].m.v])]

\* argInputs gives, for every name a schema may declare, what it may be
CliInputs(argInputs, maxArgs, rests) ==
    {CliInput(f, r.std, r.name) :
        f \in UNION {{g \in [S -> UNION {argInputs[n] : n \in S}] :
                         \A n \in S : g[n] \in argInputs[n]} :
                     S \in {T \in SUBSET DOMAIN argInputs : Cardinality(T) <= maxArgs}},
        r \in rests}

\* Values handed to DataArg::from directly
SepAlphabet == {"a", "B", "-", "_", "/"}
ExampleStrings ==
    { <<"a", "-", "-", "b", "_", "_", "c", "-", "-", "-", "d">>,
      <<"a", "-", "b", "_", "c", "$", "d", "!", "e", "'", "f", "4", "g", " ", "h">>,
      <<"h", "e", "l", "L", "o">> }
DirectStrings == SeqsUpTo(SepAlphabet, MaxStrLen) \cup ExampleStrings
DirectValues ==
    {None} \cup {Some(VStr(s)) : s \in DirectStrings}
    \cup {Some(VArr([i \in DOMAIN l |-> VStr(l[i])])) : l \in NonEmptySeqsUpTo(ExampleStrings, MaxLen)}
DirectValuedArgs == {None, Some(LocalInitializrArg(Some(ARG(None))))}
DirectOtherArgs ==
    {Some(LocalInitializrArg(Some(FLAG(None)))),
     Some(LocalInitializrArg(Some(CMD(None, None, CmdLineZ))))}
DirectInputs ==
    {[kind |-> "direct", triples |-> <<>>, commands |-> <<>>]}
    \cup {[kind |-> "direct", triples |-> << <<k, v, a>> >>, commands |-> <<>>] :
            k \in {<<"k">>, PROJ_KEY}, v \in DirectValues, a \in DirectValuedArgs}
    \cup {[kind |-> "direct", triples |-> << <<k, v, a>> >>, commands |-> <<>>] :
            k \in {<<"k">>, PROJ_KEY}, v \in {None, Some(VStr(<<"a">>))}, a \in DirectOtherArgs}

InitState(inputs) ==
    /\ input \in inputs
    /\ data_args = <<>>
    /\ sorted_cmds = <<>>
    /\ args = <<>>
    /\ commands = <<>>
    /\ pre_args = <<>>
    /\ artifacts = <<>>
    /\ files = (IF "existing" \in DOMAIN input THEN input.existing ELSE <<>>)
    /\ log = <<>>
    /\ steps = <<>>
    /\ pc = "init"

Init ==
    InitState(CliInputs(ArgInputs, MaxArgs, StdAndName)
              \cup DirectInputs)

Spec == Init /\ [][Next]_vars

\* Schemas of commands only, with every order and command line
CmdNames == {<<"c">>, <<"l">>, <<"r">>}
CmdLines == {<<"a">>, <<"b">>, <<"z">>}
CmdLineAB == <<"a", "b">>
CmdOrders == {None} \cup {Some(o) : o \in 0..MaxOrder}

InitCmd ==
    InitState(CliInputs([n \in CmdNames |->
                            CmdInputs(CmdOrders, {None}, CmdLines)
                                \cup CmdInputs({None}, {None}, {CmdLineAB})
                                \cup CmdInputs({Some(0)}, {Some(TRUE)}, {CmdLineZ})],
                        Cardinality(CmdNames), {[std |-> {}, name |-> <<"p">>]}))

SpecCmd == InitCmd /\ [][NextCmd]_vars

\* Schemas that declare a flag under the name of a standard argument; the
\* application of a template takes the arguments of its schema and then the
\* standard ones (template/kind.rs), and both read the same entry of the
\* matches
StdNamedArgInputs == [n \in {DRY, README} |-> FlagInputs(OptionOf(BOOLEAN))]

InitStdNamed == InitState(CliInputs(StdNamedArgInputs, 2, StdAndName))

SpecStdNamed == InitStdNamed /\ [][NextCmd]_vars

\* Templates directories: a root zr.toml and the zr.toml of two templates,
\* each absent, unreadable, or a schema over two names
SchemaNames == {NameDashA, NameAPath}
SchemaMaps ==
    UNION {[S -> {LocalInitializrArg(Some(k)) : k \in {FLAG(None), ARG(None)}}] :
              S \in SUBSET SchemaNames}
SchemaFiles == {NoFile, BadFile} \cup {SchemaFile(m) : m \in SchemaMaps}
TemplatePaths == <<"java-app/zr.toml", "rust-cli/zr.toml">>
FilesInputs ==
    {[kind |-> "files", root |-> r,
      locals |-> [i \in DOMAIN TemplatePaths |-> [path |-> TemplatePaths[i], file |-> l[i]]]] :
        r \in SchemaFiles, l \in [DOMAIN TemplatePaths -> SchemaFiles]}

InitSchema == InitState(FilesInputs)

SpecSchema == InitSchema /\ [][AllArgs]_vars

\* Templates directories of one or two templates (the name of a template is
\* its path without .hbs), every template with the same content, and the
\* data the helpers data() and multi_data() build: an optional multi-value
\* argument mod, an optional readme, and the project name
NameModFolder == <<"{", "{", "m", "o", "d", "}", "}", "/", "a", ".", "t", "x", "t">>
NamePlain == <<"a", ".", "t", "x", "t">>
NameFolderReadme == <<"f", "o", "l", "d", "e", "r", "/">> \o TEMPLATE_README
NameHiddenDot == <<"!", ".", "g", "i", "t", "i", "g", "n", "o", "r", "e">>
NameHidden == <<"!", "g", "i", "t", "i", "g", "n", "o", "r", "e">>
NameHiddenFolder == <<"!", "d", "/", "b", ".", "t", "x", "t">>
NameNotReadme == <<"d", "o", "c", "s", "/", "N", "O", "T", "_">> \o TEMPLATE_README
ProjectTemplateNames ==
    {NameModFolder, NamePlain, TEMPLATE_README, NameFolderReadme, NameHiddenDot, NameHidden,
     NameHiddenFolder, NameNotReadme}
TemplateContent == <<"{", "{", "p", "r", "o", "j", "}", "}">>
ModKey == <<"m", "o", "d">>
ModApiErrorKafka == << <<"a", "p", "i">>, <<"e", "r", "r", "o", "r">>, <<"k", "a", "f", "k", "a">> >>
ModValues == {ModApiErrorKafka, << <<"y">>, <<"x">> >>}
ReadmeValues == {<<>>, <<"n", "o">>}
ProjectInputs ==
    {[kind |-> "direct",
      triples |-> mod \o readme \o << <<PROJ_KEY, Some(VStr(<<"p">>)), None>> >>,
      commands |-> <<>>,
      templates |-> [n \in S |-> TemplateContent],
      root_writable |-> w,
      existing |-> <<>>,
      answer |-> <<>>] :
        mod \in {<<>>} \cup {<< <<ModKey, Some(VArr([i \in DOMAIN l |-> VStr(l[i])])), None>> >> :
                                l \in ModValues},
        readme \in {<<>>} \cup {<< <<README, Some(VStr(v)), None>> >> : v \in ReadmeValues},
        S \in {T \in SUBSET ProjectTemplateNames : Cardinality(T) \in {1, 2}},
        w \in BOOLEAN}

InitProject == InitState(ProjectInputs)

NextProject == FromDataArgs \/ NewProject

SpecProject == InitProject /\ [][NextProject]_vars

\* Templates whose artifacts fail or meet: a file gitignore next to the
\* hidden !gitignore, a folder under the fan-out folder, a name that is
\* not closed, a content calling a helper nobody registered, and a folder
\* named as the file a.txt
NameGitignore == <<"g", "i", "t", "i", "g", "n", "o", "r", "e">>
NameModNested == <<"{", "{", "m", "o", "d", "}", "}", "/", "d", "/", "a", ".", "t", "x", "t">>
NameUnclosed == <<"{", "{", "a">>
NameHelperContent == <<"c", ".", "t", "x", "t">>
NameUnderFile == NamePlain \o <<"/", "b">>
HelperContent == <<"{", "{", "h", " ", "x", "}", "}">>
RenderTemplates ==
    [n \in {NamePlain, NameGitignore, NameHidden, NameModFolder, NameModNested,
            NameUnclosed, NameHelperContent, NameUnderFile} |->
        IF n = NameGitignore THEN <<"x">>
        ELSE IF n = NameHelperContent THEN HelperContent
        ELSE TemplateContent]
RenderInputs ==
    {[kind |-> "direct",
      triples |-> mod \o << <<PROJ_KEY, Some(VStr(<<"p">>)), None>> >>,
      commands |-> <<>>,
      templates |-> [n \in S |-> RenderTemplates[n]],
      root_writable |-> w,
      existing |-> <<>>,
      answer |-> <<>>] :
        mod \in {<<>>, << <<ModKey, Some(VArr(<<VStr(<<"y">>), VStr(<<"x">>)>>)), None>> >>},
        S \in {T \in SUBSET DOMAIN RenderTemplates : Cardinality(T) \in {1, 2}},
        w \in BOOLEAN}

InitRender == InitState(RenderInputs)

SpecRender == InitRender /\ [][NextProject]_vars

\* Runs with post-generation actions: the standard flags, two commands, a
\* destination that may exist, and what the user answers when asked
FlagSets == {{}, {DRY}, {FORCE}, {IDEA}, {DRY, FORCE}, {DRY, IDEA, CODE}}
FlagTriples(flags) ==
    LET keys == SortedKeys(flags)
    IN  [i \in DOMAIN keys |-> <<keys[i], Some(VStr(<<>>)), None>>]
CommandLists == {<<>>, << <<"b">>, <<"a">> >>}
OldFile == <<"p", "/", "o", "l", "d", ".", "t", "x", "t">>
Answers == {<<"y", "\n">>, <<"Y", " ", "\n">>, <<"n", "\n">>, <<"\n">>, <<"y", "e", "s", "\n">>}
ActionsInputs ==
    {[kind |-> "direct",
      triples |-> FlagTriples(flags) \o << <<PROJ_KEY, Some(VStr(<<"p">>)), None>> >>,
      commands |-> cmds,
      templates |-> [n \in S |-> TemplateContent],
      root_writable |-> TRUE,
      existing |-> e[1],
      answer |-> e[2]] :
        flags \in FlagSets,
        cmds \in CommandLists,
        S \in {{NamePlain}, {TEMPLATE_README}},
        e \in {<<<<>>, <<>>>>} \cup {<<(OldFile :> <<"o">>), a>> : a \in Answers}}

InitActions == InitState(ActionsInputs)

NextActions == FromDataArgs \/ NewProject \/ ThenInitialize

SpecActions == InitActions /\ [][NextActions]_vars

(***************************************************************************)
(* Properties                                                              *)
(***************************************************************************)
Resolved == pc = "resolved"

\* The schema and the matches of a run from the command line
Schema == IF input.local_args[1][2].some THEN input.local_args[1][2].v ELSE <<>>
Matches == input.matched_args.v
ProjectName == Matches[PROJECT_NAME_ARG_NAME][1]
StdNames == {IDEA, CODE, DRY, README, FORCE}

KindOf(n) == Schema[n].kind.v
IsCommand(n) == n \in DOMAIN Schema /\ KindOf(n).tag = "CMD"
IsFlag(n) == n \in DOMAIN Schema /\ KindOf(n).tag = "FLAG"
IsNegatedFlag(n) == IsFlag(n) /\ KindOf(n).negate = Some(TRUE)
IsDefaultCommand(n) == IsCommand(n) /\ KindOf(n).default = Some(TRUE)

\* isPresent, isDefaultTriggered and the selection rule
Supplied(n) == n \in DOMAIN Matches
DefaultTriggered(n) == IsNegatedFlag(n) \/ IsDefaultCommand(n)
Selected(n) == IF n = PROJECT_NAME_ARG_NAME THEN TRUE ELSE Supplied(n) # DefaultTriggered(n)

\* The context key of an argument: its name without the leading dashes; the
\* project name goes under the reserved key
ExpectedKey(n) ==
    IF n = NameDashA THEN <<"a">>
    ELSE IF n = PROJECT_NAME_ARG_NAME THEN PROJ_KEY
    ELSE n

AllSuffixes ==
    { <<"u", "p", "p", "e", "r">>, <<"l", "o", "w", "e", "r">>,
      <<"s", "e", "n", "t", "e", "n", "c", "e">>, <<"t", "i", "t", "l", "e">>,
      <<"c", "a", "m", "e", "l">>, <<"p", "a", "s", "c", "a", "l">>,
      <<"k", "e", "b", "a", "b">>, <<"t", "r", "a", "i", "n">>,
      <<"s", "n", "a", "k", "e">>, <<"c", "o", "n", "s", "t", "a", "n", "t">>,
      <<"p", "a", "t", "h">>, <<"d", "o", "t">> }
SuffixedKeys(k) == {k \o <<"-">> \o sfx : sfx \in AllSuffixes}
VariantKeys(k) == {k} \cup SuffixedKeys(k)

\* The arguments of a run, and the context keys each one writes when selected
Sources == DOMAIN Schema \cup StdNames \cup {PROJECT_NAME_ARG_NAME}
Produces(n) ==
    IF IsCommand(n) THEN {}
    ELSE IF IsFlag(n) THEN {ExpectedKey(n)}
    ELSE VariantKeys(ExpectedKey(n))
ProducedByOther(n, key) ==
    \E m \in Sources \ {n} : Selected(m) /\ key \in Produces(m)

\* The DataArgs resolved for the argument named n
EntriesOf(n) == {i \in DOMAIN data_args : data_args[i].of_name = n}

\* C1 as stated: the key of a non-command argument is in the context if and
\* only if isPresent XOR isDefaultTriggered.
C1_KeyIffSelected ==
    Resolved =>
        \A n \in DOMAIN Schema \cup StdNames :
            ~IsCommand(n) => ((ExpectedKey(n) \in DOMAIN args) <=> Selected(n))

\* C1 amended: a non-command argument is resolved (exactly once) if and only
\* if isPresent XOR isDefaultTriggered, and its key is in the context if and
\* only if it is selected or another selected argument (template, standard
\* or the project name) writes the same key.
C1_KeyIffSelectedOrShared ==
    Resolved =>
        \A n \in DOMAIN Schema \cup StdNames :
            ~IsCommand(n) =>
                /\ Cardinality(EntriesOf(n)) = (IF Selected(n) THEN 1 ELSE 0)
                /\ (ExpectedKey(n) \in DOMAIN args)
                       <=> (Selected(n) \/ ProducedByOther(n, ExpectedKey(n)))

\* A supplied negated flag is left out and a supplied plain flag is put in.
C1_Witness ==
    /\ Resolved
    /\ \E n \in DOMAIN Schema :
           IsNegatedFlag(n) /\ Supplied(n) /\ ExpectedKey(n) \notin DOMAIN args
    /\ \E n \in DOMAIN Schema :
           IsFlag(n) /\ ~IsNegatedFlag(n) /\ Supplied(n) /\ ExpectedKey(n) \in DOMAIN args
    /\ README \in DOMAIN Matches /\ README \in DOMAIN args /\ DRY \notin DOMAIN args

\* C2 as stated: a negated flag is left out of the context when it is not
\* supplied and put in when it is supplied.
C2_NegatedFlagExcludedWhenUnset ==
    Resolved =>
        \A n \in DOMAIN Schema :
            IsNegatedFlag(n) =>
                /\ ~Supplied(n) => ExpectedKey(n) \notin DOMAIN args
                /\ Supplied(n) => ExpectedKey(n) \in DOMAIN args

\* C2 amended: a negated flag is put in the context (as true) when it is not
\* supplied; when it is supplied it is not resolved, and its key is in the
\* context only if another selected argument writes it.
C2_NegatedFlagIncludedWhenUnset ==
    Resolved =>
        \A n \in DOMAIN Schema :
            IsNegatedFlag(n) =>
                /\ ~Supplied(n) =>
                       /\ ExpectedKey(n) \in DOMAIN args
                       /\ \E i \in EntriesOf(n) :
                              data_args[i].variants = << <<ExpectedKey(n), VBool(TRUE)>> >>
                /\ Supplied(n) =>
                       /\ EntriesOf(n) = {}
                       /\ ExpectedKey(n) \in DOMAIN args => ProducedByOther(n, ExpectedKey(n))

\* A negated flag that is not supplied holds true in the context.
C2_Witness ==
    /\ Resolved
    /\ IsNegatedFlag(NameDashA) /\ ~Supplied(NameDashA)
    /\ <<"a">> \in DOMAIN args /\ args[<<"a">>] = VBool(TRUE)

\* The number of entries of s equal to x
Count(s, x) == Cardinality({i \in DOMAIN s : s[i] = x})

\* C3: the command list holds the command line of a command argument once
\* for every command argument with that line for which isPresent XOR
\* defaultRun holds, and nothing else.
C3_CommandsAreTheSelected ==
    Resolved =>
        /\ Len(commands) = Cardinality({n \in DOMAIN Schema : IsCommand(n) /\ Selected(n)})
        /\ \A n \in DOMAIN Schema :
               IsCommand(n) =>
                   Count(commands, KindOf(n).cmd) =
                       Cardinality({m \in DOMAIN Schema :
                                       /\ IsCommand(m) /\ KindOf(m).cmd = KindOf(n).cmd
                                       /\ Supplied(m) # (KindOf(m).default = Some(TRUE))})

\* Two selected commands with the same line give two entries, one of them
\* run by default and not supplied, while a supplied default command gives none.
C3_Witness ==
    /\ Resolved
    /\ Len(commands) = 2
    /\ \E n \in DOMAIN Schema : IsDefaultCommand(n) /\ ~Supplied(n)
    /\ \E n \in DOMAIN Schema : IsCommand(n) /\ ~IsDefaultCommand(n) /\ Supplied(n)

\* The order of a command argument, a missing one counting as 0
CmdOrderOf(n) == IF KindOf(n).order.some THEN KindOf(n).order.v ELSE 0

\* x is before y in the lexicographic order of strings
LexLess(x, y) ==
    \E i \in 1..Len(y) :
        /\ \A j \in 1..(i - 1) : j <= Len(x) /\ x[j] = y[j]
        /\ (i > Len(x) \/ CharCode(x[i]) < CharCode(y[i]))

SelectedCommands == {n \in DOMAIN Schema : IsCommand(n) /\ Selected(n)}

\* C4: the command list holds the command lines of the selected commands
\* sorted ascending by order (a missing order counting as 0), then by
\* ascending lexicographic order of the command line; it is therefore
\* determined by the set of selected commands alone. The commands
\* {order 1, 'b'}, {order 1, 'a'}, {order 0, 'z'} resolve to z, a, b.
C4_CommandsSortedByOrderThenLine ==
    Resolved =>
        /\ commands = [i \in DOMAIN sorted_cmds |-> sorted_cmds[i].cmd]
        /\ Len(sorted_cmds) = Cardinality(SelectedCommands)
        /\ \A n \in SelectedCommands :
               Cardinality({i \in DOMAIN sorted_cmds :
                               /\ sorted_cmds[i].order = CmdOrderOf(n)
                               /\ sorted_cmds[i].cmd = KindOf(n).cmd})
                   = Cardinality({m \in SelectedCommands :
                                     /\ CmdOrderOf(m) = CmdOrderOf(n)
                                     /\ KindOf(m).cmd = KindOf(n).cmd})
        /\ \A i, j \in DOMAIN sorted_cmds :
               i < j =>
                   \/ sorted_cmds[i].order < sorted_cmds[j].order
                   \/ /\ sorted_cmds[i].order = sorted_cmds[j].order
                      /\ \/ sorted_cmds[i].cmd = sorted_cmds[j].cmd
                         \/ LexLess(sorted_cmds[i].cmd, sorted_cmds[j].cmd)
        /\ ( /\ SelectedCommands = CmdNames
             /\ CmdOrderOf(<<"c">>) = 1 /\ KindOf(<<"c">>).cmd = <<"b">>
             /\ CmdOrderOf(<<"l">>) = 1 /\ KindOf(<<"l">>).cmd = <<"a">>
             /\ CmdOrderOf(<<"r">>) = 0 /\ KindOf(<<"r">>).cmd = <<"z">> )
           => commands = << <<"z">>, <<"a">>, <<"b">> >>

\* The commands of the example, the last one without an order, are all
\* supplied and resolve to z, a, b.
C4_Witness ==
    /\ Resolved
    /\ SelectedCommands = CmdNames
    /\ KindOf(<<"c">>).order = Some(1) /\ KindOf(<<"c">>).cmd = <<"b">>
    /\ KindOf(<<"l">>).order = Some(1) /\ KindOf(<<"l">>).cmd = <<"a">>
    /\ KindOf(<<"r">>).order = None /\ KindOf(<<"r">>).cmd = <<"z">>
    /\ commands = << <<"z">>, <<"a">>, <<"b">> >>

\* The argument given to a DataArg built directly, and what is known of it
BuiltFrom(kindTag) ==
    /\ pc = "built"
    /\ Len(input.triples) = 1
    /\ input.triples[1][3].some
    /\ input.triples[1][3].v.kind.v.tag = kindTag

\* C5: a command argument never writes a key of the context, selected or
\* not: its DataArg has no variants, its key and suffixed keys are in the
\* context only if another selected non-command argument writes them, and
\* a selected command is recorded in the command list.
C5_CommandWritesNoKey ==
    /\ Resolved =>
           \A n \in DOMAIN Schema :
               IsCommand(n) =>
                   /\ \A i \in EntriesOf(n) :
                          data_args[i].variants = <<>> /\ data_args[i].cmd.some
                   /\ \A key \in VariantKeys(ExpectedKey(n)) :
                          key \in DOMAIN args => ProducedByOther(n, key)
                   /\ Selected(n) => Count(commands, KindOf(n).cmd) >= 1
                   /\ ~Selected(n) => EntriesOf(n) = {}
    /\ BuiltFrom("CMD") => DOMAIN args = {}

\* A selected command beside a selected flag whose name is a suffixed key
\* of the command: the flag's key is in the context, the command's is not.
C5_Witness ==
    /\ Resolved
    /\ IsCommand(NameDashA) /\ Selected(NameDashA)
    /\ IsFlag(NameAPath) /\ Selected(NameAPath)
    /\ commands = <<CmdLineZ>>
    /\ <<"a">> \notin DOMAIN args
    /\ NameAPath \in DOMAIN args

\* C6: a selected flag yields exactly one entry, its key with the boolean
\* true; the context holds that boolean under the key unless another
\* selected argument writes the key too, and holds a suffixed key only if
\* another selected argument writes it.
C6_FlagIsOneBoolean ==
    /\ Resolved =>
           \A n \in DOMAIN Schema :
               (IsFlag(n) /\ Selected(n)) =>
                   /\ Cardinality(EntriesOf(n)) = 1
                   /\ \A i \in EntriesOf(n) :
                          data_args[i].variants = << <<ExpectedKey(n), VBool(TRUE)>> >>
                   /\ ExpectedKey(n) \in DOMAIN args
                   /\ args[ExpectedKey(n)] = VBool(TRUE)
                          \/ ProducedByOther(n, ExpectedKey(n))
                   /\ \A key \in SuffixedKeys(ExpectedKey(n)) :
                          key \in DOMAIN args => ProducedByOther(n, key)
    /\ BuiltFrom("FLAG") =>
           args = [k \in {input.triples[1][1]} |-> VBool(TRUE)]

\* A supplied plain flag is the only template argument: the context holds
\* true under its key and none of its suffixed keys.
C6_Witness ==
    /\ Resolved
    /\ DOMAIN Schema = {NameDashA}
    /\ IsFlag(NameDashA) /\ ~IsNegatedFlag(NameDashA) /\ Supplied(NameDashA)
    /\ args[<<"a">>] = VBool(TRUE)
    /\ SuffixedKeys(<<"a">>) \cap DOMAIN args = {}

IsValued(n) == n \in DOMAIN Schema /\ KindOf(n).tag \in {"ARG", "MULTI"}
IsMultiValued(n) == n \in DOMAIN Schema /\ KindOf(n).tag = "MULTI"

\* The value of a Scalar or MultiValue argument as the command line has it
SuppliedValue(n) ==
    IF IsMultiValued(n) THEN VArr([i \in DOMAIN Matches[n] |-> VStr(Matches[n][i])])
    ELSE VStr(Matches[n][1])

\* The suffix of a suffixed key of k
SuffixOf(k, key) == SubSeq(key, Len(k) + 2, Len(key))

\* The conversion of one string that goes with a suffix
ExpectedVariant(sfx, str) ==
    IF sfx = <<"p", "a", "t", "h">> THEN transform(str, "/")
    ELSE IF sfx = <<"d", "o", "t">> THEN transform(str, ".")
    ELSE ApplyCase(sfx, str)

\* C7: a selected Scalar or MultiValue argument with key k yields exactly 13
\* entries, under k (the value as supplied) and under k-suffix for the ten
\* case suffixes and the two separator suffixes; for an array every suffixed
\* entry is an array of the same length whose element i is the conversion of
\* element i of the input; the 13 keys are in the context.
C7_ThirteenEntries ==
    Resolved =>
        \A n \in DOMAIN Schema :
            (IsValued(n) /\ Selected(n)) =>
                /\ Cardinality(EntriesOf(n)) = 1
                /\ Cardinality(VariantKeys(ExpectedKey(n))) = 13
                /\ VariantKeys(ExpectedKey(n)) \subseteq DOMAIN args
                /\ \A i \in EntriesOf(n) :
                       LET d == data_args[i]
                           k == ExpectedKey(n)
                       IN  /\ Len(d.variants) = 13
                           /\ {d.variants[j][1] : j \in DOMAIN d.variants} = VariantKeys(k)
                           /\ \A j \in DOMAIN d.variants :
                                  LET key == d.variants[j][1]
                                      val == d.variants[j][2]
                                  IN  IF key = k THEN val = SuppliedValue(n)
                                      ELSE IF IsMultiValued(n)
                                      THEN /\ val.t = "arr"
                                           /\ Len(val.a) = Len(Matches[n])
                                           /\ \A e \in DOMAIN val.a :
                                                  val.a[e] = VStr(ExpectedVariant(SuffixOf(k, key),
                                                                                  Matches[n][e]))
                                      ELSE val = VStr(ExpectedVariant(SuffixOf(k, key),
                                                                      Matches[n][1]))

\* A MultiValue argument supplied with two values is the only template
\* argument: the context holds its 13 keys (and the 13 of the project name)
\* and the upper-case entry is the array of the two upper-cased values.
C7_Witness ==
    /\ Resolved
    /\ DOMAIN Schema = {NameDashA}
    /\ IsMultiValued(NameDashA) /\ Supplied(NameDashA)
    /\ Matches[NameDashA] = << <<"y", "-", "Z">>, <<"x">> >>
    /\ args[<<"a">>] = VArr(<< VStr(<<"y", "-", "Z">>), VStr(<<"x">>) >>)
    /\ args[<<"a", "-", "u", "p", "p", "e", "r">>] = VArr(<< VStr(<<"Y", "-", "Z">>), VStr(<<"X">>) >>)
    /\ Cardinality(DOMAIN args) = 26

\* One pass over a string that keeps the ASCII alphanumerics and writes one
\* separator for every maximal run of other characters
RECURSIVE CollapseRuns(_, _, _)
CollapseRuns(str, sep, inRun) ==
    IF str = <<>> THEN <<>>
    ELSE IF Head(str) \in DigitChars \cup UpperChars \cup LowerChars
    THEN <<Head(str)>> \o CollapseRuns(Tail(str), sep, FALSE)
    ELSE (IF inRun THEN <<>> ELSE <<sep>>) \o CollapseRuns(Tail(str), sep, TRUE)

\* The value expected under a separator suffix for a string or an array
Collapsed(v, sep) ==
    IF v.t = "str" THEN VStr(CollapseRuns(v.s, sep, FALSE))
    ELSE VArr([e \in DOMAIN v.a |-> VStr(CollapseRuns(v.a[e].s, sep, FALSE))])

\* The value a DataArg holds under a key
VariantAt(d, key) ==
    d.variants[CHOOSE j \in DOMAIN d.variants : d.variants[j][1] = key][2]

HasVariants(d) ==
    /\ ~(d.of_arg.some /\ d.of_arg.v.kind.v.tag \in {"FLAG", "CMD"})
    /\ d.of_value.some

ExampleString == <<"a", "-", "-", "b", "_", "_", "c", "-", "-", "-", "d">>

\* C8: the path and dot entries of a string hold the string with every
\* maximal run of characters that are not ASCII alphanumerics replaced by
\* one '/' (path) or one '.' (dot), the alphanumerics unchanged and in
\* order; "a--b__c---d" gives "a/b/c/d" and "a.b.c.d"; an array is converted
\* element by element.
C8_SeparatorsCollapseRuns ==
    \A i \in DOMAIN data_args :
        LET d == data_args[i]
            path == VariantAt(d, d.of_key \o <<"-", "p", "a", "t", "h">>)
            dot == VariantAt(d, d.of_key \o <<"-", "d", "o", "t">>)
        IN  HasVariants(d) =>
                /\ path = Collapsed(d.of_value.v, "/")
                /\ dot = Collapsed(d.of_value.v, ".")
                /\ d.of_value.v = VStr(ExampleString) =>
                       /\ path = VStr(<<"a", "/", "b", "/", "c", "/", "d">>)
                       /\ dot = VStr(<<"a", ".", "b", ".", "c", ".", "d">>)
                /\ (pc = "built" \/ d.of_name = PROJECT_NAME_ARG_NAME) =>
                       /\ args[d.of_key \o <<"-", "p", "a", "t", "h">>] = path
                       /\ args[d.of_key \o <<"-", "d", "o", "t">>] = dot

\* The context built from an array whose first element is the example
\* string holds its collapsed forms.
C8_Witness ==
    /\ pc = "built"
    /\ <<"k", "-", "p", "a", "t", "h">> \in DOMAIN args
    /\ args[<<"k", "-", "p", "a", "t", "h">>].t = "arr"
    /\ Len(args[<<"k", "-", "p", "a", "t", "h">>].a) = 2
    /\ args[<<"k", "-", "p", "a", "t", "h">>].a[1] = VStr(<<"a", "/", "b", "/", "c", "/", "d">>)
    /\ args[<<"k", "-", "d", "o", "t">>].a[1] = VStr(<<"a", ".", "b", ".", "c", ".", "d">>)

ProjUpperKey == <<"p", "r", "o", "j", "-", "u", "p", "p", "e", "r">>
ProjPathKey == <<"p", "r", "o", "j", "-", "p", "a", "t", "h">>

\* C9: the project name is always resolved, once and after every template
\* and standard argument, under proj and its 12 suffixed keys; the context
\* holds the value derived from the project name under each of these keys,
\* whatever another selected argument writes there.
C9_ProjectNameOverrides ==
    Resolved =>
        /\ Cardinality(EntriesOf(PROJECT_NAME_ARG_NAME)) = 1
        /\ data_args[Len(data_args)].of_name = PROJECT_NAME_ARG_NAME
        /\ LET d == data_args[Len(data_args)]
           IN  /\ d.of_value = Some(VStr(ProjectName))
               /\ {d.variants[j][1] : j \in DOMAIN d.variants} = VariantKeys(PROJ_KEY)
               /\ \A j \in DOMAIN d.variants : args[d.variants[j][1]] = d.variants[j][2]
        /\ args[PROJ_KEY] = VStr(ProjectName)
        /\ ProjectName = <<"a", "-", "b">> =>
               /\ args[ProjUpperKey] = VStr(<<"A", "-", "B">>)
               /\ args[ProjPathKey] = VStr(<<"a", "/", "b">>)

\* A template Scalar argument named proj is supplied with another value:
\* the context holds the project name under proj and its converted forms
\* under the suffixed keys.
C9_Witness ==
    /\ Resolved
    /\ IsValued(PROJ_KEY) /\ Supplied(PROJ_KEY)
    /\ Matches[PROJ_KEY] = <<ScalarValue>>
    /\ ProjectName = <<"a", "-", "b">>
    /\ args[PROJ_KEY] = VStr(<<"a", "-", "b">>)
    /\ args[ProjUpperKey] = VStr(<<"A", "-", "B">>)

\* proj is missing from the context or does not hold a string
ProjUnreadable == PROJ_KEY \notin DOMAIN args \/ args[PROJ_KEY].t # "str"

\* C10: after resolution from the command line the context holds the
\* project name under proj and project_name() returns it; on any context
\* project_name() returns the string under proj, and the default 'sample'
\* exactly when proj is missing or is not a string (no project is named
\* 'sample' here); building a context never adds a proj that no DataArg
\* writes.
C10_ProjAlwaysThere ==
    /\ Resolved =>
           /\ PROJ_KEY \in DOMAIN args
           /\ args[PROJ_KEY] = VStr(ProjectName)
           /\ project_name(args) = ProjectName
           /\ project_name(args) # <<"s", "a", "m", "p", "l", "e">>
    /\ pc \in {"resolved", "built"} =>
           /\ ProjUnreadable <=> project_name(args) = <<"s", "a", "m", "p", "l", "e">>
           /\ ~ProjUnreadable => project_name(args) = args[PROJ_KEY].s
    /\ pc = "built" =>
           (PROJ_KEY \in DOMAIN args
                <=> \E i \in DOMAIN input.triples :
                       /\ input.triples[i][1] = PROJ_KEY
                       /\ ~(input.triples[i][3].some
                                /\ input.triples[i][3].v.kind.v.tag = "CMD"))

\* A template flag named proj is supplied: the context still holds the
\* project name under proj and project_name() returns it.
C10_Witness ==
    /\ Resolved
    /\ IsFlag(PROJ_KEY) /\ Selected(PROJ_KEY)
    /\ ProjectName = <<"p">>
    /\ args[PROJ_KEY] = VStr(<<"p">>)
    /\ project_name(args) = <<"p">>

\* A string or an array of strings
IsStringOrStrings(v) ==
    \/ v.t = "str"
    \/ v.t = "arr" /\ \A e \in DOMAIN v.a : v.a[e].t = "str"

\* C11 as stated: every value of the resolved context is a string or an
\* array of strings.
C11_ValuesAreStrings ==
    Resolved => \A k \in DOMAIN args : IsStringOrStrings(args[k])

\* C11 amended: every value of the resolved context is a string, an array
\* of strings, the boolean true under the key of a selected template flag,
\* or null under one of the 13 keys of a selected standard argument; no
\* value is an object, a number or an array of anything but strings.
C11_ValuesAreFlat ==
    Resolved =>
        \A k \in DOMAIN args :
            \/ IsStringOrStrings(args[k])
            \/ /\ args[k] = VBool(TRUE)
               /\ \E n \in DOMAIN Schema : IsFlag(n) /\ Selected(n) /\ ExpectedKey(n) = k
            \/ /\ args[k] = Null
               /\ \E n \in StdNames : n \in DOMAIN Matches /\ k \in VariantKeys(n)

\* A selected flag and the supplied standard flag readme beside the project
\* name: the context holds true, null and a string.
C11_Witness ==
    /\ Resolved
    /\ IsFlag(NameDashA) /\ Selected(NameDashA)
    /\ args[<<"a">>] = VBool(TRUE)
    /\ README \in DOMAIN Matches
    /\ args[README] = Null
    /\ args[README \o <<"-", "u", "p", "p", "e", "r">>] = Null
    /\ args[PROJ_KEY].t = "str"

\* ---- Schema loading ----
Loaded == pc = "loaded"
Usable(file) == file.state = "valid"
RootFile == input.root
LocalFile(i) == input.locals[i].file
EffectiveSchema(i) == pre_args[i][2]

\* C12: when the root zr.toml and a template's zr.toml are both schemas,
\* the template's effective schema declares the names of both, and a name
\* declared by both has the definition of the template's own file.
C12_LocalOverridesRoot ==
    Loaded => \A i \in DOMAIN pre_args :
        (Usable(RootFile) /\ Usable(LocalFile(i))) =>
            /\ EffectiveSchema(i).some
            /\ DOMAIN EffectiveSchema(i).v
                  = DOMAIN RootFile.schema \cup DOMAIN LocalFile(i).schema
            /\ \A n \in DOMAIN RootFile.schema \cap DOMAIN LocalFile(i).schema :
                  EffectiveSchema(i).v[n] = LocalFile(i).schema[n]

Generated == pc = "generated"
Templates == DOMAIN input.templates
\* The pairs maybe_duplicate gave for one template, in the order produced
ArtifactsOf(template) == SelectSeq(artifacts, LAMBDA a : a.template = template)
\* The values the data hold for the multi-value argument mod
HasMod == ModKey \in DOMAIN args /\ args[ModKey].t = "arr"
ModStrings == [i \in DOMAIN args[ModKey].a |-> args[ModKey].a[i].s]
FileA == <<"/", "a", ".", "t", "x", "t">>

\* C14: for the template {{mod}}/a.txt and data resolved from the
\* multi-value argument mod (api, error, kafka in the example), the
\* artifacts of the template are exactly one per value v of mod, named
\* v/a.txt, and no others.
C14_OneArtifactPerValue ==
    (Generated /\ NameModFolder \in Templates /\ HasMod) =>
        LET produced == ArtifactsOf(NameModFolder)
        IN  /\ Len(produced) = Len(ModStrings)
            /\ {produced[i].name : i \in DOMAIN produced}
                  = {ModStrings[i] \o FileA : i \in DOMAIN ModStrings}

\* The templates new_project does not leave out
Kept(template) == ends_with(template, TEMPLATE_README) => README \in DOMAIN args
\* The templates whose name holds no placeholder
PlainTemplates == Templates \ {NameModFolder}

\* C15: a template whose name holds no placeholder of a multi-value
\* argument yields exactly one artifact, under its own name, however many
\* multi-value arguments and values the data hold.
C15_PlainNameYieldsOne ==
    Generated => \A t \in PlainTemplates :
        Kept(t) =>
            /\ Len(ArtifactsOf(t)) = 1
            /\ ArtifactsOf(t)[1].name = t

\* Where render_template creates the file of an artifact
PathOf(artifact) == join(args[PROJ_KEY].s, render_template_string(artifact.name, args).v)
\* What the source template of an artifact renders to with the whole data
SourceRendering(artifact) ==
    render_template_string(input.templates[artifact.template], args).v

\* C16: the file of every artifact, every fan-out copy included, holds
\* what its source template renders to with the whole resolved data.
C16_ContentIsSourceRendering ==
    Generated => \A i \in DOMAIN artifacts :
        PathOf(artifacts[i]) \in DOMAIN files
            => files[PathOf(artifacts[i])] = SourceRendering(artifacts[i])

\* The copies of one template that one key of the data drives
CopiesOf(template, key) ==
    SelectSeq(artifacts, LAMBDA a : a.template = template /\ a.is_duplicate /\ a.of_key = key)

\* C17: the fan-out copies of one template driven by one multi-value
\* argument come in the order its values were supplied: the copy of the
\* i-th value before the copy of the j-th whenever i < j, whatever the
\* values are.
C17_CopiesInSuppliedOrder ==
    Generated => \A t \in {n \in Templates : Kept(n)} :
        /\ \A k \in multi_args(args) :
              /\ Len(CopiesOf(t, k)) = Len(args[k].a)
              /\ \A i \in DOMAIN CopiesOf(t, k) : CopiesOf(t, k)[i].of_index = i
        /\ (t = NameModFolder /\ HasMod) =>
              /\ args[ModKey] = input.triples[1][2].v
              /\ [i \in DOMAIN CopiesOf(t, ModKey) |-> CopiesOf(t, ModKey)[i].name]
                    = [i \in DOMAIN ModStrings |-> ModStrings[i] \o FileA]

C17_Witness ==
    /\ Generated
    /\ NameModFolder \in Templates
    /\ HasMod
    /\ ModStrings = << <<"y">>, <<"x">> >>
    /\ artifacts[1].name = <<"y">> \o FileA
    /\ artifacts[2].name = <<"x">> \o FileA

\* The templates named README.md, at the top or in a folder
ReadmeTemplates ==
    {t \in Templates : t = TEMPLATE_README \/ ends_with(t, <<"/">> \o TEMPLATE_README)}

\* C18: without the key readme in the resolved data no artifact and no
\* file named README.md is produced, at any depth; with the key every
\* template named README.md yields its artifacts and its file.
C18_ReadmeOnlyWhenSelected ==
    Generated =>
        IF README \in DOMAIN args
        THEN \A t \in ReadmeTemplates :
                /\ ArtifactsOf(t) # <<>>
                /\ join(args[PROJ_KEY].s, t) \in DOMAIN files
        ELSE /\ \A t \in ReadmeTemplates : ArtifactsOf(t) = <<>>
             /\ \A i \in DOMAIN artifacts : ~ends_with(artifacts[i].name, TEMPLATE_README)
             /\ \A path \in DOMAIN files : ~ends_with(path, TEMPLATE_README)

C18_Witness ==
    /\ Generated
    /\ README \notin DOMAIN args
    /\ Templates = {NameFolderReadme, NamePlain}
    /\ DOMAIN files = {<<"p", "/">> \o NamePlain}

\* The path of a template's file before any renaming
Written(template) == join(args[PROJ_KEY].s, template)
InProject(name) == args[PROJ_KEY].s \o <<"/">> \o name
Gitignore == <<"g", "i", "t", "i", "g", "n", "o", "r", "e">>

BothSelected(n) == n \in DOMAIN Schema \cap StdNames /\ Selected(n) /\ Supplied(n)

Producers(key) ==
    {i \in DOMAIN data_args :
        \E j \in DOMAIN data_args[i].variants : data_args[i].variants[j][1] = key}
LastProducer(key) == CHOOSE i \in Producers(key) : \A j \in Producers(key) : j <= i
\* The rank of a resolved argument in the merge: the template's arguments,
\* the standard arguments, the project name
MergeRank(d) ==
    IF d.of_arg.some THEN 1 ELSE IF d.of_name = PROJECT_NAME_ARG_NAME THEN 3 ELSE 2
StdPosition(n) == CHOOSE i \in DOMAIN StdArgsVariants : StdArgsVariants[i] = n

\* C27: a shared key is settled by the merge order: the resolved arguments
\* are the template's in ascending order of name, then the standard ones
\* in their declared order, then the project name; every key of the
\* context holds the value of the last argument that writes it, so a key
\* written by one argument holds that argument's value.
C27_LastWriterWins ==
    Resolved =>
        /\ \A i, j \in DOMAIN data_args :
              i < j =>
                  LET x == data_args[i]
                      y == data_args[j]
                  IN  /\ MergeRank(x) <= MergeRank(y)
                      /\ (MergeRank(x) = 1 /\ MergeRank(y) = 1) => StrLess(x.of_name, y.of_name)
                      /\ (MergeRank(x) = 2 /\ MergeRank(y) = 2)
                            => StdPosition(x.of_name) < StdPosition(y.of_name)
        /\ \A k \in DOMAIN args :
              /\ Producers(k) # {}
              /\ args[k] = VariantAt(data_args[LastProducer(k)], k)
        /\ \A i \in DOMAIN data_args : \A j \in DOMAIN data_args[i].variants :
              data_args[i].variants[j][1] \in DOMAIN args

\* The argument --a with a value writes a-path, and so does the selected
\* flag named a-path, merged later: the context holds true.
C27_Witness ==
    /\ Resolved
    /\ IsValued(NameDashA) /\ Supplied(NameDashA)
    /\ IsFlag(NameAPath) /\ Selected(NameAPath)
    /\ Producers(NameAPath) = {1, 2}
    /\ VariantAt(data_args[1], NameAPath) = VStr(ScalarValue)
    /\ args[NameAPath] = VBool(TRUE)
    /\ args[<<"a">>] = VStr(ScalarValue)

\* ---- Separator transform ----
\* The string values handed to DataArg::from, with their path and dot forms
SeparatorCases ==
    {<<data_args[i].of_value.v.s,
       VariantAt(data_args[i], data_args[i].of_key \o <<"-">> \o PATH_SUFFIX).s, "/">> :
        i \in {j \in DOMAIN data_args :
                 HasVariants(data_args[j]) /\ data_args[j].of_value.v.t = "str"}}
    \cup
    {<<data_args[i].of_value.v.s,
       VariantAt(data_args[i], data_args[i].of_key \o <<"-">> \o DOT_SUFFIX).s, ".">> :
        i \in {j \in DOMAIN data_args :
                 HasVariants(data_args[j]) /\ data_args[j].of_value.v.t = "str"}}
IsAlnum(c) == c \in DigitChars \cup UpperChars \cup LowerChars

\* C28: the path and dot forms of every string hold only ASCII
\* alphanumerics and the separator, never two separators in a row; the
\* transform of such a form is the form itself; and a string that starts or
\* ends with characters that are not alphanumerics gives a form that starts
\* or ends with one separator.
C28_TransformNormalises ==
    \A c \in SeparatorCases :
        LET v == c[1]
            out == c[2]
            sep == c[3]
        IN  /\ \A i \in DOMAIN out : IsAlnum(out[i]) \/ out[i] = sep
            /\ \A i \in 1..(Len(out) - 1) : ~(out[i] = sep /\ out[i + 1] = sep)
            /\ transform(out, sep) = out
            /\ (v # <<>> /\ ~IsAlnum(v[1])) =>
                  /\ out # <<>> /\ out[1] = sep
                  /\ Len(out) > 1 => out[2] # sep
            /\ (v # <<>> /\ ~IsAlnum(v[Len(v)])) =>
                  /\ out # <<>> /\ out[Len(out)] = sep
                  /\ Len(out) > 1 => out[Len(out) - 1] # sep
            /\ (v # <<>> /\ IsAlnum(v[1])) => (out # <<>> /\ out[1] = v[1])
            /\ (v # <<>> /\ IsAlnum(v[Len(v)])) => (out # <<>> /\ out[Len(out)] = v[Len(v)])
            /\ (v = <<>>) <=> (out = <<>>)

C28_Witness ==
    /\ pc = "built"
    /\ Len(input.triples) = 1
    /\ input.triples[1][2] = Some(VStr(<<"-", "_", "a">>))
    /\ <<<<"-", "_", "a">>, <<"/", "a">>, "/">> \in SeparatorCases
    /\ <<<<"-", "_", "a">>, <<".", "a">>, ".">> \in SeparatorCases

\* ---- Destination of the files ----
\* C30: every file written during generation lies inside the destination
\* project directory: its path starts with the project's path and a
\* separator, whatever the templates and the resolved data are, fan-out
\* copies of the suffixed keys of a multi-value argument included.
C30_FilesInsideProject ==
    Generated => \A path \in DOMAIN files :
        starts_with(path, args[PROJ_KEY].s \o <<"/">>)

\* ---- Readme suppression ----
\* The triples of the input that write the key readme
ReadmeTriples == {i \in DOMAIN input.triples : input.triples[i][1] = README}

\* C29: whether a template is left out depends on the end of its name and
\* on the presence of the key readme only: without the key, the templates
\* left out are exactly those whose name ends with README.md
\* (docs/NOT_README.md among them); an argument writing the key readme,
\* whatever its value, makes every template yield its artifacts.
C29_SuffixAndKeyOnly ==
    Generated =>
        /\ README \in DOMAIN args <=> ReadmeTriples # {}
        /\ \A t \in Templates :
              ArtifactsOf(t) = <<>> <=>
                  (ends_with(t, TEMPLATE_README) /\ README \notin DOMAIN args)

C29_Witness ==
    /\ Generated
    /\ README \notin DOMAIN args
    /\ Templates = {NameNotReadme, NamePlain}
    /\ ArtifactsOf(NameNotReadme) = <<>>
    /\ ArtifactsOf(NamePlain) # <<>>
    /\ DOMAIN files = {<<"p", "/">> \o NamePlain}

\* ---- Failures of one artifact ----
Panicked == pc = "panicked"
\* The lines of the calls of render_template
Calls == {i \in DOMAIN log : log[i].ev \in {"render", "panic"}}

\* C21: no failure while producing one artifact ends the run: once
\* new_project is over, every pair of maybe_duplicate has gone through
\* render_template, a failing one with a warning and nothing more.
C21_NoFailureAborts ==
    (Generated \/ Panicked) =>
        /\ ~Panicked
        /\ Len(log) = Len(artifacts)
        /\ \A i \in Calls : log[i].ev = "render" /\ log[i].what = artifacts[i].name

\* The fan-out copies whose name is no registered template and whose file
\* could be created, so that the content was rendered
Absent ==
    {i \in DOMAIN artifacts :
        /\ artifacts[i].is_duplicate
        /\ artifacts[i].name \notin Templates
        /\ ~log[i].existed
        /\ starts_with(PathOf(artifacts[i]), <<"/">>) => input.root_writable}

\* C25: a fan-out copy whose content fails to render because its name is
\* no registered template is a no-op: it gives no warning and leaves no
\* file at its path (unless another artifact of the run has the same path).
C25_AbsentTemplateIsNoOp ==
    Generated => \A i \in Absent :
        /\ log[i].ok
        /\ (\A j \in DOMAIN artifacts \ {i} : PathOf(artifacts[j]) # PathOf(artifacts[i]))
              => PathOf(artifacts[i]) \notin DOMAIN files

\* C26: no call of render_template changes a file that was there before
\* it, and a call whose path was there before it gives a warning.
C26_ExistingFilesUntouched ==
    (Generated \/ Panicked) => \A i \in Calls :
        /\ ~log[i].modified
        /\ log[i].existed => ~log[i].ok

\* ---- Post-generation actions ----
Done == pc = "done"
Declined == pc = "declined"
\* The steps of one kind, in the order taken
StepsOf(ev) == SelectSeq(steps, LAMBDA e : e.ev = ev)
\* The commands run, in the order run
Ran == [i \in DOMAIN StepsOf("cmd") |-> StepsOf("cmd")[i].what]
\* Where the first step of a kind stands, 0 when there is none
FirstStep(ev) ==
    IF StepsOf(ev) = <<>> THEN 0
    ELSE CHOOSE i \in DOMAIN steps :
            steps[i].ev = ev /\ \A j \in 1..(i - 1) : steps[j].ev # ev
\* The project directory could be entered
Entered == StepsOf("chdir") = <<>>
InsideProject(path) == starts_with(path, args[PROJ_KEY].s \o <<"/">>)

Existing == DOMAIN input.existing # {}
\* The answers of the inputs that are a yes
Agreed == input.answer \in {<<"y", "\n">>, <<"Y", " ", "\n">>}
Asked == StepsOf("ask") # <<>>

\* C23: over an existing destination, force deletes it and generates
\* without a question; without force the user is asked first, and an
\* answer that is no yes leaves the directory as it was, with no template
\* rendered and no post-generation action taken.
C23_OverwriteOnlyWhenAllowed ==
    (pc \notin {"init", "built"} /\ Existing) =>
        IF FORCE \in DOMAIN args
        THEN /\ ~Asked
             /\ ~Declined
             /\ OldFile \notin DOMAIN files
             /\ pc = "generated" =>
                   \A i \in DOMAIN artifacts : PathOf(artifacts[i]) \in DOMAIN files
        ELSE /\ steps[1].ev = "ask"
             /\ Len(StepsOf("ask")) = 1
             /\ Agreed => (~Declined /\ OldFile \notin DOMAIN files)
             /\ ~Agreed =>
                   /\ Declined
                   /\ files = input.existing
                   /\ artifacts = <<>>
                   /\ log = <<>>
                   /\ Len(steps) = 1

C23_Witness ==
    /\ Declined
    /\ FORCE \notin DOMAIN args
    /\ input.answer = <<"n", "\n">>
    /\ NamePlain \in Templates
    /\ files = (OldFile :> <<"o">>)

\* C24: with dry, the project directory is deleted by the last step,
\* after git init, every command and the editors, whatever they answered,
\* and nothing of the project remains; without dry no step deletes and
\* the file of every artifact rendered without warning is still there.
C24_DryErasesLast ==
    Done =>
        IF DRY \in DOMAIN args
        THEN /\ \A path \in DOMAIN files : ~InsideProject(path)
             /\ Entered =>
                   /\ steps[Len(steps)].ev = "erase"
                   /\ Len(StepsOf("erase")) = 1
                   /\ Len(StepsOf("git")) = 1
                   /\ Ran = commands
                   /\ IDEA \in DOMAIN args <=> StepsOf("idea") # <<>>
                   /\ CODE \in DOMAIN args <=> StepsOf("code") # <<>>
        ELSE /\ StepsOf("erase") = <<>>
             /\ \A i \in DOMAIN artifacts :
                   log[i].ok => /\ PathOf(artifacts[i]) \in DOMAIN files
                                /\ files[PathOf(artifacts[i])] = SourceRendering(artifacts[i])

C24_Witness ==
    /\ Done
    /\ {DRY, IDEA, CODE} \subseteq DOMAIN args
    /\ artifacts # <<>>
    /\ DOMAIN files = {}
    /\ steps = <<Entry("git", <<>>, TRUE, FALSE, FALSE),
                 Entry("cmd", <<"b">>, FALSE, FALSE, FALSE),
                 Entry("cmd", <<"a">>, TRUE, FALSE, FALSE),
                 Entry("idea", <<>>, FALSE, FALSE, FALSE),
                 Entry("code", <<>>, TRUE, FALSE, FALSE),
                 Entry("erase", <<>>, TRUE, FALSE, FALSE)>>

====
